---- MODULE Spec2Model ----
(***************************************************************************)
(* Model of the webusb crate (native libusb build): the UsbDevice          *)
(* lifecycle state machine of src/src/lib.rs.                              *)
(*                                                                         *)
(* The device-descriptor scalars (class codes, versions, ids, names,       *)
(* packet sizes) are written once at enumeration and read by no            *)
(* operation; they are not part of the modelled state.                     *)
(***************************************************************************)
EXTENDS Integers, Sequences, FiniteSets, TLC

\* ------------------------------------------------------------------------
\* Bounds of the argument domains the operations are called with.
\* ------------------------------------------------------------------------
MaxConfigurationValue == 3
MaxInterfaceNumber == 3
MaxAlternateSetting == 1
MaxEndpointNumber == 4

ConfigurationValues == 0..MaxConfigurationValue
InterfaceNumbers == 0..MaxInterfaceNumber
AlternateSettings == 0..MaxAlternateSetting
EndpointNumbers == 0..MaxEndpointNumber

\* ------------------------------------------------------------------------
\* Option<T>: None is the empty sequence, Some(x) the one-element sequence.
\* ------------------------------------------------------------------------
None == <<>>
Some(x) == <<x>>
is_some(o) == o # <<>>
unwrap(o) == o[1]

\* Index of the first TRUE of a sequence of truth values, 0 when there is
\* none (Iterator::position / Iterator::find over the predicate's values).
position(matches) ==
  IF \E i \in 1..Len(matches) : matches[i]
  THEN CHOOSE i \in 1..Len(matches) : matches[i] /\ \A j \in 1..(i - 1) : ~matches[j]
  ELSE 0

\* The sequence of truth values of a predicate over the elements of s is
\* written [x \in 1..Len(s) |-> ...] at each use.

\* ------------------------------------------------------------------------
\* Enumerated types.
\* ------------------------------------------------------------------------
Direction == {"In", "Out"}
UsbEndpointType == {"Bulk", "Interrupt", "Isochronous", "Control"}
UsbRecipient == {"Device", "Interface", "Endpoint", "Other"}
Error == {"Usb", "NotFound", "InvalidState", "InvalidAccess"}

EP_DIR_IN == 128
EP_DIR_OUT == 0

\* ------------------------------------------------------------------------
\* The attached device as the backend describes it: its table of
\* configuration descriptors, indexed 0.. by the backend (1.. here).
\* name_index tells whether the descriptor carries a string index, so that
\* building the record issues a string-descriptor read.
\* ------------------------------------------------------------------------
EndpointDescriptor(n, d, t) == [number |-> n, direction |-> d, transfer_type |-> t]

InterfaceDescriptor(s, named, eps) ==
  [setting_number |-> s, name_index |-> named, endpoint_descriptors |-> eps]

ConfigDescriptors ==
  << [number |-> 1, name_index |-> TRUE,
      interfaces |->
        << [number |-> 0,
            descriptors |->
              << InterfaceDescriptor(0, FALSE,
                   << EndpointDescriptor(1, "In", "Interrupt"),
                      EndpointDescriptor(3, "Out", "Isochronous") >>) >> ],
           [number |-> 2,
            descriptors |->
              << InterfaceDescriptor(0, FALSE,
                   << EndpointDescriptor(4, "Out", "Bulk"),
                      EndpointDescriptor(2, "In", "Bulk") >>),
                 InterfaceDescriptor(1, TRUE,
                   << EndpointDescriptor(4, "Out", "Bulk"),
                      EndpointDescriptor(3, "In", "Control") >>) >> ] >> ],
     [number |-> 2, name_index |-> FALSE,
      interfaces |->
        << [number |-> 1,
            descriptors |->
              << InterfaceDescriptor(0, FALSE,
                   << EndpointDescriptor(1, "Out", "Interrupt") >>) >> ] >> ] >>

\* Answers of the backend to one request.
BackendAnswers == {"Ok", "Err"}

\* ------------------------------------------------------------------------
\* Data model, built from the backend's descriptors.
\* ------------------------------------------------------------------------
UsbEndpoint_from(e) ==
  [endpoint_number |-> e.number, direction |-> e.direction, type |-> e.transfer_type]

UsbAlternateInterface_from(d) ==
  [alternate_setting |-> d.setting_number,
   endpoints |-> [k \in 1..Len(d.endpoint_descriptors) |->
                    UsbEndpoint_from(d.endpoint_descriptors[k])]]

UsbInterface_from(i) ==
  [interface_number |-> i.number,
   claimed |-> FALSE,
   alternate |->
     UsbAlternateInterface_from(
       i.descriptors[position([x \in 1..Len(i.descriptors) |->
                                 i.descriptors[x].setting_number = 0])]),
   alternates |-> [k \in 1..Len(i.descriptors) |->
                     UsbAlternateInterface_from(i.descriptors[k])]]

UsbConfiguration_from(c) ==
  [configuration_value |-> c.number,
   interfaces |-> [k \in 1..Len(c.interfaces) |-> UsbInterface_from(c.interfaces[k])]]

\* Does building the record of descriptor c read an interface-name string?
reads_interface_name(c) ==
  \E k \in 1..Len(c.interfaces) :
    \E a \in 1..Len(c.interfaces[k].descriptors) :
      c.interfaces[k].descriptors[a].name_index


\* Endpoint-address arithmetic on u8 values.
RECURSIVE bitor(_, _)
bitor(a, b) ==
  IF a = 0 THEN b
  ELSE IF b = 0 THEN a
  ELSE (IF a % 2 = 1 \/ b % 2 = 1 THEN 1 ELSE 0) + 2 * bitor(a \div 2, b \div 2)

RECURSIVE bitand(_, _)
bitand(a, b) ==
  IF a = 0 \/ b = 0 THEN 0
  ELSE (IF a % 2 = 1 /\ b % 2 = 1 THEN 1 ELSE 0) + 2 * bitand(a \div 2, b \div 2)

\* ------------------------------------------------------------------------
\* State of one UsbDevice.
\*   configurations  the list built at enumeration
\*   configuration   Option<UsbConfiguration>, the selected configuration
\*   opened          the public opened flag
\*   device_handle   Option<DeviceHandle>
\*   last            the most recent call: its name, arguments, returned
\*                   Result and the backend requests it issued, in order
\*   reset_claimed   history: the interface numbers that were claimed when
\*                   the most recent reset succeeded and on which neither
\*                   claim_interface nor release_interface has been called
\*                   since; emptied by open, close and select_configuration
\* ------------------------------------------------------------------------
VARIABLES configurations, configuration, opened, device_handle, last, reset_claimed

\* The url field of the device record (Option<String>), computed once by
\* enumeration.
VARIABLES url

\* The same device record in a build with the wasm feature, taken through
\* the same calls: Option of its opened flag, its selected configuration
\* and the Result of its most recent call.  None where only the libusb
\* build is followed.
VARIABLES facade

\* How many calls of the blink sequence (examples/blink.rs) the calls made
\* since enumeration amount to, each answered by the backend without a
\* failure; BlinkOff once the calls are not that sequence.
VARIABLES blink

\* The backend's side of the claims: Option of the interface numbers
\* claimed on the device's current backend handle, by the claim_interface
\* and release_interface requests the backend accepted on it.  None where
\* the backend's side is not followed.
VARIABLES backend_claimed

\* A call of a descriptor parser: the buffer it is given, the build profile
\* ("debug" checks integer overflow, "release" does not), and what the call
\* did.
VARIABLES buffer, build, parsed

\* An enumeration of the bus: the devices attached, and what
\* Context::devices() did (result "-" before the call).
VARIABLES attached, listing

vars == <<configurations, configuration, opened, device_handle, last, reset_claimed,
          buffer, build, parsed, attached, listing, url, facade, blink, backend_claimed>>

\* One request handed to the backend handle (or to the backend device).
Call(req, a, b) == [req |-> req, a |-> a, b |-> b]

\* An outcome that forgets the landing page.
Outcome_clears_url(r, c, o, h, cfg) ==
  [result |-> r, calls |-> c, opened |-> o, device_handle |-> h, configuration |-> cfg,
   url |-> None]

\* What a call leaves behind: the returned Result, the backend requests
\* issued, and the fields of self after the call.
Outcome(r, c, o, h, cfg) ==
  [result |-> r, calls |-> c, opened |-> o, device_handle |-> h, configuration |-> cfg,
   url |-> url]

\* An early return (or an abort) that leaves self as it was.
Return(r, c) == Outcome(r, c, opened, device_handle, configuration)

\* The numbers of the interfaces of the selected configuration whose claimed
\* flag is set.
claimed_interfaces(cfg) ==
  IF is_some(cfg)
  THEN {unwrap(cfg).interfaces[k].interface_number :
          k \in {j \in 1..Len(unwrap(cfg).interfaces) : unwrap(cfg).interfaces[j].claimed}}
  ELSE {}

\* Some alternate of interface itf exposes endpoint e with direction d.
exposes_endpoint(itf, e, d) ==
  \E a \in 1..Len(itf.alternates) :
    \E k \in 1..Len(itf.alternates[a].endpoints) :
      /\ itf.alternates[a].endpoints[k].endpoint_number = e
      /\ itf.alternates[a].endpoints[k].direction = d

\* Position of the first interface of cfg numbered n, 0 when there is none.
find_interface(cfg, n) ==
  position([x \in 1..Len(cfg.interfaces) |-> cfg.interfaces[x].interface_number = n])

\* Position of the first interface of cfg exposing endpoint e with direction
\* d in some alternate, 0 when there is none.
find_interface_exposing(cfg, e, d) ==
  position([x \in 1..Len(cfg.interfaces) |-> exposes_endpoint(cfg.interfaces[x], e, d)])

\* find_map over interfaces, alternates and endpoints: the first endpoint
\* with number e and direction d, None when there is none.
find_endpoint(cfg, e, d) ==
  LET i == find_interface_exposing(cfg, e, d) IN
  IF i = 0 THEN None
  ELSE
    LET alts == cfg.interfaces[i].alternates
        a == position([x \in 1..Len(alts) |->
                         \E k \in 1..Len(alts[x].endpoints) :
                           /\ alts[x].endpoints[k].endpoint_number = e
                           /\ alts[x].endpoints[k].direction = d])
        k == position([x \in 1..Len(alts[a].endpoints) |->
                         /\ alts[a].endpoints[x].endpoint_number = e
                         /\ alts[a].endpoints[x].direction = d])
    IN Some(alts[a].endpoints[k])


\* ------------------------------------------------------------------------
\* Operations of UsbDevice.  Each returns the Outcome of one call in the
\* current state; the bk parameters are the backend's answers to the
\* requests the call issues.  "panic" is an abort (unreachable!, unwrap).
\* Of the string-descriptor reads made while a configuration record is
\* built, calls lists the failing one only.
\* ------------------------------------------------------------------------
\* open that raises the flag before asking the backend for the handle.
open_flag_first(bk) ==
  IF opened THEN Return("Ok", <<>>)
  ELSE IF bk = "Err"
    THEN Outcome("Usb", <<Call("open", 0, 0)>>, TRUE, device_handle, configuration)
  ELSE Outcome("Ok", <<Call("open", 0, 0)>>, TRUE, Some("handle"), configuration)

\* open without the already-open early return.
open_no_guard(bk) ==
  IF bk = "Err" THEN Return("Usb", <<Call("open", 0, 0)>>)
  ELSE Outcome("Ok", <<Call("open", 0, 0)>>, TRUE, Some("handle"), configuration)

open(bk) ==
  IF opened THEN Return("Ok", <<>>)
  ELSE IF bk = "Err" THEN Return("Usb", <<Call("open", 0, 0)>>)
  ELSE Outcome("Ok", <<Call("open", 0, 0)>>, TRUE, Some("handle"), configuration)

close ==
  IF ~opened THEN Return("Ok", <<>>)
  ELSE IF ~is_some(device_handle) THEN Return("panic", <<>>)
  ELSE Outcome("Ok", <<Call("close", 0, 0)>>, FALSE, None, configuration)

\* select_configuration that stores the new configuration before the
\* opened check.
select_configuration_store_first(configuration_value, bk_descriptor, bk_set, bk_name, bk_interface_name) ==
  LET config_idx ==
        position([x \in 1..Len(configurations) |->
                    configurations[x].configuration_value = configuration_value])
      read == <<Call("config_descriptor", config_idx - 1, 0)>>
      set == <<Call("set_active_configuration", configuration_value, 0)>>
      descriptor == ConfigDescriptors[config_idx]
      stored == Some(UsbConfiguration_from(descriptor))
  IN
  IF config_idx = 0 THEN Return("NotFound", <<>>)
  ELSE IF bk_descriptor = "Err" THEN Return("Usb", read)
  ELSE IF ~opened THEN Outcome("InvalidState", read, opened, device_handle, stored)
  ELSE IF ~is_some(device_handle) THEN Return("panic", read)
  ELSE IF bk_set = "Err" THEN Return("Usb", read \o set)
  ELSE Outcome("Ok", read \o set, opened, device_handle, stored)

select_configuration(configuration_value, bk_descriptor, bk_set, bk_name, bk_interface_name) ==
  LET config_idx ==
        position([x \in 1..Len(configurations) |->
                    configurations[x].configuration_value = configuration_value])
      read == <<Call("config_descriptor", config_idx - 1, 0)>>
      set == <<Call("set_active_configuration", configuration_value, 0)>>
      descriptor == ConfigDescriptors[config_idx]
  IN
  IF config_idx = 0 THEN Return("NotFound", <<>>)
  ELSE IF bk_descriptor = "Err" THEN Return("Usb", read)
  ELSE IF ~opened THEN Return("InvalidState", read)
  ELSE IF ~is_some(device_handle) THEN Return("panic", read)
  ELSE IF bk_set = "Err" THEN Return("Usb", read \o set)
  ELSE IF descriptor.name_index /\ bk_name = "Err"
    THEN Return("Usb", read \o set \o <<Call("read_string_descriptor_ascii", 0, 0)>>)
  ELSE IF reads_interface_name(descriptor) /\ bk_interface_name = "Err"
    THEN Return("panic", read \o set \o <<Call("read_string_descriptor_ascii", 0, 0)>>)
  ELSE Outcome("Ok", read \o set, opened, device_handle,
               Some(UsbConfiguration_from(descriptor)))

\* claim_interface without the already-claimed early return.
claim_interface_no_claimed_check(interface_number, bk) ==
  IF ~is_some(configuration) THEN Return("NotFound", <<>>)
  ELSE
    LET active_configuration == unwrap(configuration)
        i == find_interface(active_configuration, interface_number)
        claim == <<Call("claim_interface", interface_number, 0)>>
    IN
    IF i = 0 THEN Return("NotFound", <<>>)
    ELSE IF ~opened THEN Return("InvalidState", <<>>)
    ELSE IF ~is_some(device_handle) THEN Return("panic", <<>>)
    ELSE IF bk = "Err" THEN Return("Usb", claim)
    ELSE Outcome("Ok", claim, opened, device_handle,
                 Some([active_configuration EXCEPT !.interfaces[i].claimed = TRUE]))
\* claim_interface that tests opened before it looks the interface up.
claim_interface_opened_first(interface_number, bk) ==
  IF ~opened THEN Return("InvalidState", <<>>)
  ELSE IF ~is_some(configuration) THEN Return("NotFound", <<>>)
  ELSE
    LET active_configuration == unwrap(configuration)
        i == find_interface(active_configuration, interface_number)
        claim == <<Call("claim_interface", interface_number, 0)>>
    IN
    IF i = 0 THEN Return("NotFound", <<>>)
    ELSE IF active_configuration.interfaces[i].claimed THEN Return("Ok", <<>>)
    ELSE IF ~is_some(device_handle) THEN Return("panic", <<>>)
    ELSE IF bk = "Err" THEN Return("Usb", claim)
    ELSE Outcome("Ok", claim, opened, device_handle,
                 Some([active_configuration EXCEPT !.interfaces[i].claimed = TRUE]))
\* claim_interface that asks the backend but does not set the flag.
claim_interface_no_flag(interface_number, bk) ==
  IF ~is_some(configuration) THEN Return("NotFound", <<>>)
  ELSE
    LET active_configuration == unwrap(configuration)
        i == find_interface(active_configuration, interface_number)
        claim == <<Call("claim_interface", interface_number, 0)>>
    IN
    IF i = 0 THEN Return("NotFound", <<>>)
    ELSE IF ~opened THEN Return("InvalidState", <<>>)
    ELSE IF active_configuration.interfaces[i].claimed THEN Return("Ok", <<>>)
    ELSE IF ~is_some(device_handle) THEN Return("panic", <<>>)
    ELSE IF bk = "Err" THEN Return("Usb", claim)
    ELSE Return("Ok", claim)

claim_interface(interface_number, bk) ==
  IF ~is_some(configuration) THEN Return("NotFound", <<>>)
  ELSE
    LET active_configuration == unwrap(configuration)
        i == find_interface(active_configuration, interface_number)
        claim == <<Call("claim_interface", interface_number, 0)>>
    IN
    IF i = 0 THEN Return("NotFound", <<>>)
    ELSE IF ~opened THEN Return("InvalidState", <<>>)
    ELSE IF active_configuration.interfaces[i].claimed THEN Return("Ok", <<>>)
    ELSE IF ~is_some(device_handle) THEN Return("panic", <<>>)
    ELSE IF bk = "Err" THEN Return("Usb", claim)
    ELSE Outcome("Ok", claim, opened, device_handle,
                 Some([active_configuration EXCEPT !.interfaces[i].claimed = TRUE]))

\* release_interface that clears the flag of every interface.
release_interface_all(interface_number, bk) ==
  IF ~is_some(configuration) THEN Return("NotFound", <<>>)
  ELSE
    LET active_configuration == unwrap(configuration)
        i == find_interface(active_configuration, interface_number)
        release == <<Call("release_interface", interface_number, 0)>>
    IN
    IF i = 0 THEN Return("NotFound", <<>>)
    ELSE IF ~opened THEN Return("InvalidState", <<>>)
    ELSE IF ~active_configuration.interfaces[i].claimed THEN Return("Ok", <<>>)
    ELSE IF ~is_some(device_handle) THEN Return("panic", <<>>)
    ELSE IF bk = "Err" THEN Return("Usb", release)
    ELSE Outcome("Ok", release, opened, device_handle,
                 Some([active_configuration EXCEPT
                         !.interfaces = [k \in DOMAIN @ |-> [@[k] EXCEPT !.claimed = FALSE]]]))
\* release_interface that tests the claimed flag before opened.
release_interface_claimed_first(interface_number, bk) ==
  IF ~is_some(configuration) THEN Return("NotFound", <<>>)
  ELSE
    LET active_configuration == unwrap(configuration)
        i == find_interface(active_configuration, interface_number)
        release == <<Call("release_interface", interface_number, 0)>>
    IN
    IF i = 0 THEN Return("NotFound", <<>>)
    ELSE IF ~active_configuration.interfaces[i].claimed THEN Return("Ok", <<>>)
    ELSE IF ~opened THEN Return("InvalidState", <<>>)
    ELSE IF ~is_some(device_handle) THEN Return("panic", <<>>)
    ELSE IF bk = "Err" THEN Return("Usb", release)
    ELSE Outcome("Ok", release, opened, device_handle,
                 Some([active_configuration EXCEPT !.interfaces[i].claimed = FALSE]))

release_interface(interface_number, bk) ==
  IF ~is_some(configuration) THEN Return("NotFound", <<>>)
  ELSE
    LET active_configuration == unwrap(configuration)
        i == find_interface(active_configuration, interface_number)
        release == <<Call("release_interface", interface_number, 0)>>
    IN
    IF i = 0 THEN Return("NotFound", <<>>)
    ELSE IF ~opened THEN Return("InvalidState", <<>>)
    ELSE IF ~active_configuration.interfaces[i].claimed THEN Return("Ok", <<>>)
    ELSE IF ~is_some(device_handle) THEN Return("panic", <<>>)
    ELSE IF bk = "Err" THEN Return("Usb", release)
    ELSE Outcome("Ok", release, opened, device_handle,
                 Some([active_configuration EXCEPT !.interfaces[i].claimed = FALSE]))

\* select_alternate_interface without the claimed check.
select_alternate_interface_no_claimed_check(interface_number, alternate_setting, bk) ==
  IF ~is_some(configuration) THEN Return("NotFound", <<>>)
  ELSE
    LET i == find_interface(unwrap(configuration), interface_number)
        set == <<Call("set_alternate_setting", interface_number, alternate_setting)>>
    IN
    IF i = 0 THEN Return("NotFound", <<>>)
    ELSE IF ~opened THEN Return("InvalidState", <<>>)
    ELSE IF bk = "Err" THEN Return("Usb", set)
    ELSE Return("Ok", set)

select_alternate_interface(interface_number, alternate_setting, bk) ==
  IF ~is_some(configuration) THEN Return("NotFound", <<>>)
  ELSE
    LET active_configuration == unwrap(configuration)
        i == find_interface(active_configuration, interface_number)
        set == <<Call("set_alternate_setting", interface_number, alternate_setting)>>
    IN
    IF i = 0 THEN Return("NotFound", <<>>)
    ELSE IF ~opened \/ ~active_configuration.interfaces[i].claimed
      THEN Return("InvalidState", <<>>)
    ELSE IF ~is_some(device_handle) THEN Return("panic", <<>>)
    ELSE IF bk = "Err" THEN Return("Usb", set)
    ELSE Return("Ok", set)
\* validate_control_setup looking the interface up by the whole index.
validate_control_setup_full_index(recipient, index) ==
  IF ~is_some(configuration) THEN "Ok"
  ELSE
    LET cfg == unwrap(configuration) IN
    CASE recipient = "Interface" ->
           LET i == find_interface(cfg, index)
           IN IF i = 0 THEN "NotFound"
              ELSE IF ~cfg.interfaces[i].claimed THEN "InvalidState"
              ELSE "Ok"
      [] recipient = "Endpoint" ->
           LET endpoint_number == bitand(index % 256, 16)
               direction == IF bitand(index \div 256, 1) = 1 THEN "In" ELSE "Out"
               i == find_interface_exposing(cfg, endpoint_number, direction)
           IN IF i = 0 THEN "NotFound" ELSE "Ok"
      [] OTHER -> "Ok"

\* validate_control_setup refusing a device with no configuration selected.
validate_control_setup_requires_configuration(recipient, index) ==
  IF ~is_some(configuration) THEN "NotFound"
  ELSE
    LET cfg == unwrap(configuration) IN
    CASE recipient = "Interface" ->
           LET i == find_interface(cfg, bitand(index, 255))
           IN IF i = 0 THEN "NotFound"
              ELSE IF ~cfg.interfaces[i].claimed THEN "InvalidState"
              ELSE "Ok"
      [] recipient = "Endpoint" ->
           LET endpoint_number == bitand(index % 256, 16)
               direction == IF bitand(index \div 256, 1) = 1 THEN "In" ELSE "Out"
               i == find_interface_exposing(cfg, endpoint_number, direction)
           IN IF i = 0 THEN "NotFound" ELSE "Ok"
      [] OTHER -> "Ok"

\* The Result of validate_control_setup ("Ok" or an Error).
validate_control_setup(recipient, index) ==
  IF ~is_some(configuration) THEN "Ok"
  ELSE
    LET cfg == unwrap(configuration) IN
    CASE recipient = "Interface" ->
           LET interface_number == bitand(index, 255)
               i == find_interface(cfg, interface_number)
           IN IF i = 0 THEN "NotFound"
              ELSE IF ~cfg.interfaces[i].claimed THEN "InvalidState"
              ELSE "Ok"
      [] recipient = "Endpoint" ->
           LET endpoint_number == bitand(index % 256, 16)
               direction == IF bitand(index \div 256, 1) = 1 THEN "In" ELSE "Out"
               i == find_interface_exposing(cfg, endpoint_number, direction)
           IN IF i = 0 THEN "NotFound" ELSE "Ok"
      [] OTHER -> "Ok"

control_transfer_in(recipient, index, bk) ==
  IF ~opened THEN Return("InvalidState", <<>>)
  ELSE IF validate_control_setup(recipient, index) # "Ok"
    THEN Return(validate_control_setup(recipient, index), <<>>)
  ELSE IF ~is_some(device_handle) THEN Return("panic", <<>>)
  ELSE IF bk = "Err" THEN Return("Usb", <<Call("read_control", index, 0)>>)
  ELSE Return("Ok", <<Call("read_control", index, 0)>>)

control_transfer_out(recipient, index, bk) ==
  IF ~opened THEN Return("InvalidState", <<>>)
  ELSE IF validate_control_setup(recipient, index) # "Ok"
    THEN Return(validate_control_setup(recipient, index), <<>>)
  ELSE IF ~is_some(device_handle) THEN Return("panic", <<>>)
  ELSE IF bk = "Err" THEN Return("Usb", <<Call("write_control", index, 0)>>)
  ELSE Return("Ok", <<Call("write_control", index, 0)>>)
\* clear_halt without the claimed check.
clear_halt_no_claimed_check(direction, endpoint_number, bk) ==
  IF ~is_some(configuration) THEN Return("NotFound", <<>>)
  ELSE
    LET i == find_interface_exposing(unwrap(configuration), endpoint_number, direction)
        endpoint == bitor(endpoint_number,
                          IF direction = "In" THEN EP_DIR_IN ELSE EP_DIR_OUT)
    IN
    IF i = 0 THEN Return("NotFound", <<>>)
    ELSE IF ~opened THEN Return("InvalidState", <<>>)
    ELSE IF bk = "Err" THEN Return("Usb", <<Call("clear_halt", endpoint, 0)>>)
    ELSE Return("Ok", <<Call("clear_halt", endpoint, 0)>>)

clear_halt(direction, endpoint_number, bk) ==
  IF ~is_some(configuration) THEN Return("NotFound", <<>>)
  ELSE
    LET active_configuration == unwrap(configuration)
        i == find_interface_exposing(active_configuration, endpoint_number, direction)
        endpoint == bitor(endpoint_number,
                          IF direction = "In" THEN EP_DIR_IN ELSE EP_DIR_OUT)
    IN
    IF i = 0 THEN Return("NotFound", <<>>)
    ELSE IF ~opened \/ ~active_configuration.interfaces[i].claimed
      THEN Return("InvalidState", <<>>)
    ELSE IF ~is_some(device_handle) THEN Return("panic", <<>>)
    ELSE IF bk = "Err" THEN Return("Usb", <<Call("clear_halt", endpoint, 0)>>)
    ELSE Return("Ok", <<Call("clear_halt", endpoint, 0)>>)
\* transfer_in handing the bare endpoint number to the backend.
transfer_in_no_direction_bit(endpoint_number, bk) ==
  IF ~is_some(configuration) THEN Return("NotFound", <<>>)
  ELSE
    LET endpoint == find_endpoint(unwrap(configuration), endpoint_number, "In")
    IN
    IF ~is_some(endpoint) THEN Return("NotFound", <<>>)
    ELSE IF unwrap(endpoint).type \notin {"Bulk", "Interrupt"}
      THEN Return("InvalidAccess", <<>>)
    ELSE IF ~opened THEN Return("InvalidState", <<>>)
    ELSE IF ~is_some(device_handle) THEN Return("panic", <<>>)
    ELSE
      LET read == <<Call(IF unwrap(endpoint).type = "Bulk"
                         THEN "read_bulk" ELSE "read_interrupt", endpoint_number, 0)>>
      IN IF bk = "Err" THEN Return("Usb", read) ELSE Return("Ok", read)

transfer_in(endpoint_number, bk) ==
  IF ~is_some(configuration) THEN Return("NotFound", <<>>)
  ELSE
    LET endpoint == find_endpoint(unwrap(configuration), endpoint_number, "In")
        endpoint_addr == bitor(EP_DIR_IN, endpoint_number)
    IN
    IF ~is_some(endpoint) THEN Return("NotFound", <<>>)
    ELSE IF unwrap(endpoint).type \notin {"Bulk", "Interrupt"}
      THEN Return("InvalidAccess", <<>>)
    ELSE IF ~opened THEN Return("InvalidState", <<>>)
    ELSE IF ~is_some(device_handle) THEN Return("panic", <<>>)
    ELSE
      LET read == <<Call(IF unwrap(endpoint).type = "Bulk"
                         THEN "read_bulk" ELSE "read_interrupt", endpoint_addr, 0)>>
      IN IF bk = "Err" THEN Return("Usb", read) ELSE Return("Ok", read)
\* transfer_out checking opened before the endpoint type.
transfer_out_opened_first(endpoint_number, bk) ==
  IF ~is_some(configuration) THEN Return("NotFound", <<>>)
  ELSE
    LET endpoint == find_endpoint(unwrap(configuration), endpoint_number, "Out")
        endpoint_addr == bitor(EP_DIR_OUT, endpoint_number)
    IN
    IF ~is_some(endpoint) THEN Return("NotFound", <<>>)
    ELSE IF ~opened THEN Return("InvalidState", <<>>)
    ELSE IF unwrap(endpoint).type \notin {"Bulk", "Interrupt"}
      THEN Return("InvalidAccess", <<>>)
    ELSE
      LET write == <<Call(IF unwrap(endpoint).type = "Bulk"
                          THEN "write_bulk" ELSE "write_interrupt", endpoint_addr, 0)>>
      IN IF bk = "Err" THEN Return("Usb", write) ELSE Return("Ok", write)

transfer_out(endpoint_number, bk) ==
  IF ~is_some(configuration) THEN Return("NotFound", <<>>)
  ELSE
    LET endpoint == find_endpoint(unwrap(configuration), endpoint_number, "Out")
        endpoint_addr == bitor(EP_DIR_OUT, endpoint_number)
    IN
    IF ~is_some(endpoint) THEN Return("NotFound", <<>>)
    ELSE IF unwrap(endpoint).type \notin {"Bulk", "Interrupt"}
      THEN Return("InvalidAccess", <<>>)
    ELSE IF ~opened THEN Return("InvalidState", <<>>)
    ELSE IF ~is_some(device_handle) THEN Return("panic", <<>>)
    ELSE
      LET write == <<Call(IF unwrap(endpoint).type = "Bulk"
                          THEN "write_bulk" ELSE "write_interrupt", endpoint_addr, 0)>>
      IN IF bk = "Err" THEN Return("Usb", write) ELSE Return("Ok", write)

\* reset without the opened check.
reset_no_opened_check(bk) ==
  IF ~is_some(device_handle) THEN Return("panic", <<>>)
  ELSE IF bk = "Err" THEN Return("Usb", <<Call("reset", 0, 0)>>)
  ELSE Return("Ok", <<Call("reset", 0, 0)>>)

\* reset that forgets the claims once the bus reset went through.
reset_drops_claims(bk) ==
  IF ~opened THEN Return("InvalidState", <<>>)
  ELSE IF ~is_some(device_handle) THEN Return("panic", <<>>)
  ELSE IF bk = "Err" THEN Return("Usb", <<Call("reset", 0, 0)>>)
  ELSE Outcome("Ok", <<Call("reset", 0, 0)>>, opened, device_handle,
               IF is_some(configuration)
               THEN Some([unwrap(configuration) EXCEPT
                            !.interfaces = [k \in DOMAIN @ |-> [@[k] EXCEPT !.claimed = FALSE]]])
               ELSE None)

reset(bk) ==
  IF ~opened THEN Return("InvalidState", <<>>)
  ELSE IF ~is_some(device_handle) THEN Return("panic", <<>>)
  ELSE IF bk = "Err" THEN Return("Usb", <<Call("reset", 0, 0)>>)
  ELSE Return("Ok", <<Call("reset", 0, 0)>>)

\* An isochronous transfer that reports the endpoint as missing.
isochronous_transfer_not_found ==
  Return("NotFound", <<>>)

\* unimplemented!(): the call aborts whatever the state of self.
isochronous_transfer_in ==
  Return("panic", <<>>)

isochronous_transfer_out ==
  Return("panic", <<>>)


\* ------------------------------------------------------------------------
\* The same methods compiled with the wasm feature: the
\* #[cfg(feature = "wasm")] blocks.  dev is the record's opened flag and
\* selected configuration; js is the answer of the JavaScript promise the
\* call awaits ("Err" is a rejection, which `.unwrap()` turns into an
\* abort).
\* ------------------------------------------------------------------------
WasmOutcome(r, o, cfg) == [result |-> r, opened |-> o, configuration |-> cfg]

\* await of a promise followed by Ok(()) with no field written.
wasm_await(dev, js) ==
  IF js = "Err" THEN WasmOutcome("panic", dev.opened, dev.configuration)
  ELSE WasmOutcome("Ok", dev.opened, dev.configuration)

\* A method whose wasm block returns Ok at once (or is empty).
wasm_stub(dev) == WasmOutcome("Ok", dev.opened, dev.configuration)

wasm_open(dev, js) ==
  IF dev.opened THEN WasmOutcome("Ok", dev.opened, dev.configuration)
  ELSE IF js = "Err" THEN WasmOutcome("panic", dev.opened, dev.configuration)
  ELSE WasmOutcome("Ok", TRUE, dev.configuration)

wasm_close(dev, js) ==
  IF ~dev.opened THEN WasmOutcome("Ok", dev.opened, dev.configuration)
  ELSE IF js = "Err" THEN WasmOutcome("panic", dev.opened, dev.configuration)
  ELSE WasmOutcome("Ok", FALSE, dev.configuration)

\* The wasm build's method named op, on the record f (None: not followed).
wasm_call(f, op, js) ==
  IF ~is_some(f) THEN None
  ELSE
    LET dev == unwrap(f) IN
    Some(CASE op = "open" -> wasm_open(dev, js)
           [] op = "close" -> wasm_close(dev, js)
           [] op \in {"select_configuration", "claim_interface", "release_interface",
                      "select_alternate_interface", "reset"} -> wasm_await(dev, js)
           [] op \in {"control_transfer_in", "control_transfer_out", "clear_halt",
                      "transfer_in", "transfer_out"} -> wasm_stub(dev)
           [] OTHER -> WasmOutcome("panic", dev.opened, dev.configuration))

\* ------------------------------------------------------------------------
\* descriptors.rs: the BOS and URL descriptor parsers.  A byte slice is a
\* sequence of 0..255; at(bytes, k) is the slice's element bytes[k] of the
\* source (indices from 0).  A call either returns an Option or panics.
\* ------------------------------------------------------------------------
DEVICE_CAPABILITY_DESCRIPTOR_TYPE == 16
PLATFORM_DEV_CAPABILITY_TYPE == 5
WEB_USB_CAPABILITY_UUID == <<56, 182, 8, 52, 169, 9, 160, 71, 139, 253, 160, 118, 136, 21, 182, 101>>
BOS_DESCRIPTOR_TYPE == 15
DESCRIPTOR_TYPE == 3
DESCRIPTOR_MIN_LENGTH == 3

at(bytes, k) == bytes[k + 1]

\* &bytes[from..]
slice_from(bytes, from) == SubSeq(bytes, from + 1, Len(bytes))

\* &bytes[from..to]
slice(bytes, from, to) == SubSeq(bytes, from + 1, to)

Panics == [panic |-> TRUE, value |-> None]

Returns(v) == [panic |-> FALSE, value |-> v]

RECURSIVE pow2(_)
pow2(n) == IF n = 0 THEN 1 ELSE 2 * pow2(n - 1)

\* u8::wrapping_shl: the shift amount is taken modulo the width, the
\* result is truncated to the width.
wrapping_shl(x, rhs) == (x * pow2(rhs % 8)) % 256

\* The body of the loop `for i in 0..num_device_caps` of parse_bos, from
\* iteration i on; bytes and length are the loop's variables on entry.
RECURSIVE parse_bos_loop(_, _, _, _, _)
parse_bos_loop(bytes, length, i, num_device_caps, end) ==
  IF i >= num_device_caps THEN Returns(None)
  ELSE IF length > Len(bytes) THEN Panics
  ELSE
    LET rest == slice_from(bytes, length) IN
    IF i = end THEN Returns(None)
    ELSE IF Len(rest) = 0 THEN Panics
    ELSE
      LET len == at(rest, 0) IN
      IF len < 3 THEN Returns(None)
      ELSE IF Len(rest) < len THEN Returns(None)
      ELSE IF at(rest, 1) # DEVICE_CAPABILITY_DESCRIPTOR_TYPE THEN Returns(None)
      ELSE IF at(rest, 2) # PLATFORM_DEV_CAPABILITY_TYPE
        THEN parse_bos_loop(rest, len, i + 1, num_device_caps, end)
      ELSE IF len < 20 THEN Returns(None)
      ELSE IF slice(rest, 4, 20) # WEB_USB_CAPABILITY_UUID
        THEN parse_bos_loop(rest, len, i + 1, num_device_caps, end)
      ELSE IF len < 22 THEN Returns(None)
      ELSE
        LET version == (at(rest, 20) + at(rest, 21) * 256) % 65536 IN
        IF version < 256 THEN parse_bos_loop(rest, len, i + 1, num_device_caps, end)
        ELSE IF len # 24 THEN Returns(None)
        ELSE Returns(Some(<<at(rest, 22), at(rest, 23)>>))

\* parse_bos on bytes.  The additions are u8 additions: when the sum
\* exceeds 255 a build with overflow checks (debug) panics and a build
\* without them (release) wraps.
parse_bos(bytes, overflow_checks) ==
  IF Len(bytes) < 5 THEN Returns(None)
  ELSE
    LET sum == at(bytes, 2) + wrapping_shl(at(bytes, 3), 8)
        total_length == sum % 256
    IN
    IF sum > 255 /\ overflow_checks THEN Panics
    ELSE IF at(bytes, 0) # 5 THEN Returns(None)
    ELSE IF at(bytes, 1) # BOS_DESCRIPTOR_TYPE % 256 THEN Returns(None)
    ELSE IF 5 > total_length \/ total_length > Len(bytes) THEN Returns(None)
    ELSE
      LET num_device_caps == at(bytes, 4)
          end_sum == at(bytes, 0) + total_length
      IN
      IF end_sum > 255 /\ overflow_checks THEN Panics
      ELSE parse_bos_loop(slice_from(bytes, 5), 0, 0, num_device_caps, end_sum % 256)

\* String::from_utf8_lossy as a sequence of code points: well-formed UTF-8
\* is decoded, every maximal ill-formed part becomes U+FFFD (65533).
RECURSIVE from_utf8_lossy(_)
from_utf8_lossy(bytes) ==
  IF Len(bytes) = 0 THEN <<>>
  ELSE
    LET b == at(bytes, 0)
        is_cont(k, lo, hi) == Len(bytes) > k /\ at(bytes, k) >= lo /\ at(bytes, k) <= hi
        cont(k) == at(bytes, k) - 128
        lo2 == IF b = 224 THEN 160 ELSE IF b = 240 THEN 144 ELSE 128
        hi2 == IF b = 237 THEN 159 ELSE IF b = 244 THEN 143 ELSE 191
        width == IF b < 128 THEN 1
                 ELSE IF b >= 194 /\ b <= 223 THEN 2
                 ELSE IF b >= 224 /\ b <= 239 THEN 3
                 ELSE IF b >= 240 /\ b <= 244 THEN 4
                 ELSE 0
        valid == IF width = 2 THEN (IF is_cont(1, 128, 191) THEN 2 ELSE 1)
                 ELSE IF ~is_cont(1, lo2, hi2) THEN 1
                 ELSE IF ~is_cont(2, 128, 191) THEN 2
                 ELSE IF width = 3 THEN 3
                 ELSE IF ~is_cont(3, 128, 191) THEN 3
                 ELSE 4
    IN
    IF width = 1 THEN <<b>> \o from_utf8_lossy(slice_from(bytes, 1))
    ELSE IF width = 0 THEN <<65533>> \o from_utf8_lossy(slice_from(bytes, 1))
    ELSE IF valid < width THEN <<65533>> \o from_utf8_lossy(slice_from(bytes, valid))
    ELSE IF width = 2
      THEN <<(b - 192) * 64 + cont(1)>> \o from_utf8_lossy(slice_from(bytes, 2))
    ELSE IF width = 3
      THEN <<(b - 224) * 4096 + cont(1) * 64 + cont(2)>> \o from_utf8_lossy(slice_from(bytes, 3))
    ELSE <<(b - 240) * 262144 + cont(1) * 4096 + cont(2) * 64 + cont(3)>>
           \o from_utf8_lossy(slice_from(bytes, 4))

\* The code points of "http://" and of "https://".
scheme_http == <<104, 116, 116, 112, 58, 47, 47>>

scheme_https == <<104, 116, 116, 112, 115, 58, 47, 47>>
\* parse_webusb_url decoding every byte after the scheme, not bytes[3..length].
parse_webusb_url_whole_slice(bytes) ==
  IF Len(bytes) < DESCRIPTOR_MIN_LENGTH THEN Returns(None)
  ELSE
    LET length == at(bytes, 0) IN
    IF length < DESCRIPTOR_MIN_LENGTH THEN Returns(None)
    ELSE IF length > Len(bytes) THEN Returns(None)
    ELSE IF at(bytes, 1) # DESCRIPTOR_TYPE THEN Returns(None)
    ELSE IF at(bytes, 2) \notin {0, 1} THEN Returns(None)
    ELSE Returns(Some((IF at(bytes, 2) = 0 THEN scheme_http ELSE scheme_https)
                        \o from_utf8_lossy(slice_from(bytes, 3))))

\* parse_webusb_url on bytes; the String is a sequence of code points.
parse_webusb_url(bytes) ==
  IF Len(bytes) < DESCRIPTOR_MIN_LENGTH THEN Returns(None)
  ELSE
    LET length == at(bytes, 0) IN
    IF length < DESCRIPTOR_MIN_LENGTH THEN Returns(None)
    ELSE IF length > Len(bytes) THEN Returns(None)
    ELSE IF at(bytes, 1) # DESCRIPTOR_TYPE THEN Returns(None)
    ELSE IF at(bytes, 2) \notin {0, 1} THEN Returns(None)
    ELSE Returns(Some((IF at(bytes, 2) = 0 THEN scheme_http ELSE scheme_https)
                        \o from_utf8_lossy(slice(bytes, 3, length))))

\* ------------------------------------------------------------------------
\* Enumeration (TryFrom<rusb::Device>): the record a Context hands out.
\* readable is the set of descriptor indices whose config_descriptor read
\* succeeded; the others are left out of configurations.
\* ------------------------------------------------------------------------
configurations_from(readable) ==
  LET idx == SelectSeq([k \in 1..Len(ConfigDescriptors) |-> k], LAMBDA k : k \in readable)
  IN [j \in 1..Len(idx) |-> UsbConfiguration_from(ConfigDescriptors[idx[j]])]
\* ------------------------------------------------------------------------
\* Enumeration of the bus (Context::devices, TryFrom<rusb::Device>).  A
\* device on the bus is described by what it answers:
\*   class_code, usb_version (<<major, minor>>)
\*   bos             the bytes of its BOS descriptor
\*   url_descriptor  the bytes it returns to the vendor GET_URL request
\*   fault           None, or Some([request, index, error]): the one
\*                   backend request that fails on this device (index is
\*                   the idx of config_descriptor(idx), 0 otherwise) and
\*                   the rusb error it fails with
\* ------------------------------------------------------------------------
fails(device, request) ==
  is_some(device.fault) /\ unwrap(device.fault).request = request

fault_error(device) == unwrap(device.fault).error

\* What read_control leaves in a zeroed buffer of n bytes when the device
\* holds data: the first n bytes of data, zeros after the end of data.
read_into(n, data) == [k \in 1..n |-> IF k <= Len(data) THEN data[k] ELSE 0]

Failed(error, calls) == [result |-> "Usb", error |-> error, device |-> None, calls |-> calls]

Aborted(calls) == [result |-> "panic", error |-> "-", device |-> None, calls |-> calls]

\* The `let url = if read_bos_descriptors { ... }` block: result "Ok" with
\* the url, "Usb" with the backend error of a `?`, or "panic".
discover_url(device, overflow_checks) ==
  LET read_bos_descriptors == device.usb_version[1] >= 2 /\ device.usb_version[2] >= 1
      header == <<Call("read_control", BOS_DESCRIPTOR_TYPE * 256, 5)>>
      buffer5 == read_into(5, device.bos)
      new_length == bitor(buffer5[3], wrapping_shl(buffer5[4], 8))
      full == <<Call("read_control", BOS_DESCRIPTOR_TYPE * 256, new_length)>>
      new_buffer == read_into(new_length, device.bos)
      capability == parse_bos(new_buffer, overflow_checks)
  IN
  IF ~read_bos_descriptors THEN [result |-> "Ok", error |-> "-", url |-> None, calls |-> <<>>]
  ELSE IF fails(device, "bos_header")
    THEN [result |-> "Usb", error |-> fault_error(device), url |-> None, calls |-> header]
  ELSE IF Len(device.bos) < 5
    THEN [result |-> "panic", error |-> "-", url |-> None, calls |-> header]
  ELSE IF fails(device, "bos")
    THEN [result |-> "Usb", error |-> fault_error(device), url |-> None, calls |-> header \o full]
  ELSE IF capability.panic
    THEN [result |-> "panic", error |-> "-", url |-> None, calls |-> header \o full]
  ELSE IF ~is_some(capability.value)
    THEN [result |-> "Ok", error |-> "-", url |-> None, calls |-> header \o full]
  ELSE
    LET vendor_code == unwrap(capability.value)[1]
        landing_page_id == unwrap(capability.value)[2]
        get_url == <<Call("read_control_vendor", vendor_code, landing_page_id)>>
    IN
    IF fails(device, "url")
    THEN [result |-> "Usb", error |-> fault_error(device), url |-> None,
          calls |-> header \o full \o get_url]
    ELSE [result |-> "Ok", error |-> "-",
          url |-> parse_webusb_url(read_into(255, device.url_descriptor)).value,
          calls |-> header \o full \o get_url]

\* UsbConfiguration::from on descriptor c of device: "Ok", "Usb" when the
\* configuration name cannot be read, "panic" when an interface name
\* cannot.
configuration_from_result(device, c) ==
  IF c.name_index /\ fails(device, "configuration_name") THEN "Usb"
  ELSE IF reads_interface_name(c) /\ fails(device, "interface_name") THEN "panic"
  ELSE "Ok"

\* The indices of the descriptors config_descriptor(idx) returns.
readable_descriptors(device) ==
  {k \in 1..Len(ConfigDescriptors) :
     ~(fails(device, "config_descriptor") /\ unwrap(device.fault).index = k - 1)}

\* UsbDevice::try_from(device).
try_from(device, overflow_checks) ==
  LET open_call == <<Call("open", 0, 0)>>
      discovery == discover_url(device, overflow_checks)
      calls == open_call \o discovery.calls
      active == ConfigDescriptors[1]
      active_result == configuration_from_result(device, active)
      readable == readable_descriptors(device)
      from_results == {configuration_from_result(device, ConfigDescriptors[k]) : k \in readable}
      first_bad == CHOOSE k \in readable :
                     /\ configuration_from_result(device, ConfigDescriptors[k]) # "Ok"
                     /\ \A j \in readable :
                          configuration_from_result(device, ConfigDescriptors[j]) # "Ok" => k <= j
  IN
  IF fails(device, "device_descriptor") THEN Failed(fault_error(device), <<>>)
  ELSE IF fails(device, "open") THEN Failed(fault_error(device), open_call)
  ELSE IF discovery.result = "panic" THEN Aborted(calls)
  ELSE IF discovery.result = "Usb" THEN Failed(discovery.error, calls)
  ELSE IF ~fails(device, "active_config_descriptor") /\ active_result = "panic"
    THEN Aborted(calls)
  ELSE IF from_results \ {"Ok"} # {}
    THEN (IF configuration_from_result(device, ConfigDescriptors[first_bad]) = "panic"
          THEN Aborted(calls)
          ELSE Failed(fault_error(device), calls))
  ELSE [result |-> "Ok", error |-> "-", calls |-> calls,
        device |-> Some([device_class |-> device.class_code,
                         usb_version |-> device.usb_version,
                         url |-> discovery.url,
                         configuration |->
                           IF fails(device, "active_config_descriptor") \/ active_result # "Ok"
                           THEN None ELSE Some(UsbConfiguration_from(active)),
                         configurations |-> configurations_from(readable),
                         opened |-> FALSE,
                         device_handle |-> None])]

\* The iterator chain of Context::devices from the first of list on:
\* result "Ok" with the devices collected, or "panic"; attempts are the
\* try_from results in order.
RECURSIVE collect_devices(_, _)
collect_devices(list, overflow_checks) ==
  IF Len(list) = 0 THEN [result |-> "Ok", devices |-> <<>>, attempts |-> <<>>]
  ELSE
    LET d == Head(list)
        rest == collect_devices(Tail(list), overflow_checks)
        t == try_from(d, overflow_checks)
    IN
    IF fails(d, "device_descriptor") \/ d.class_code = 9 THEN rest
    ELSE IF t.result = "panic"
      THEN [result |-> "panic", devices |-> <<>>, attempts |-> <<t>>]
    ELSE IF t.result = "Usb" /\ t.error = "Access"
      THEN [rest EXCEPT !.attempts = <<t>> \o @]
    ELSE IF t.result = "Usb"
      THEN [result |-> "panic", devices |-> <<>>, attempts |-> <<t>>]
    ELSE [result |-> rest.result,
          devices |-> IF rest.result = "Ok" THEN <<unwrap(t.device)>> \o rest.devices ELSE <<>>,
          attempts |-> <<t>> \o rest.attempts]

\* Context::devices() over the devices in list; bk is the backend's answer
\* to the listing request.
devices(list, bk, overflow_checks) ==
  IF bk = "Err" THEN [result |-> "Usb", devices |-> <<>>, attempts |-> <<>>]
  ELSE collect_devices(list, overflow_checks)

\* wIndex values of the control transfers issued.
SetupIndexes == {0, 2, 4, 16, 257, 258}

\* What listing holds before Context::devices() is called.
NotListed == [result |-> "-", devices |-> <<>>, attempts |-> <<>>]

\* What parsed holds before and after a call of parser fn.
NotParsed == [fn |-> "-", panic |-> FALSE, value |-> None]

Parsed(fn, out) == [fn |-> fn, panic |-> out.panic, value |-> out.value]

Called(op, n, m, dir, rcp, out) ==
  [op |-> op, n |-> n, m |-> m, dir |-> dir, rcp |-> rcp,
   result |-> out.result, calls |-> out.calls]

\* The calls of examples/blink.rs and tests::test_device_blink, as the
\* arguments the device sees: claim interface 2, select its alternate 0,
\* a Class request to recipient Interface with index 2, write to Out
\* endpoint 4 and clear its halt, twice, the Class request again, release,
\* reset, close.
BlinkCall(op, n, m, dir, rcp) == [op |-> op, n |-> n, m |-> m, dir |-> dir, rcp |-> rcp]

BlinkSequence ==
  << BlinkCall("open", 0, 0, "-", "-"),
     BlinkCall("claim_interface", 2, 0, "-", "-"),
     BlinkCall("select_alternate_interface", 2, 0, "-", "-"),
     BlinkCall("control_transfer_out", 2, 0, "-", "Interface"),
     BlinkCall("transfer_out", 4, 0, "Out", "-"),
     BlinkCall("clear_halt", 4, 0, "Out", "-"),
     BlinkCall("transfer_out", 4, 0, "Out", "-"),
     BlinkCall("clear_halt", 4, 0, "Out", "-"),
     BlinkCall("control_transfer_out", 2, 0, "-", "Interface"),
     BlinkCall("release_interface", 2, 0, "-", "-"),
     BlinkCall("reset", 0, 0, "-", "-"),
     BlinkCall("close", 0, 0, "-", "-") >>

BlinkOff == Len(BlinkSequence) + 1

\* The device the example runs on: its active configuration has interface
\* 2 exposing Out endpoint 4 of type Bulk or Interrupt.
blink_start ==
  IF /\ is_some(configuration)
     /\ find_interface(unwrap(configuration), 2) # 0
     /\ find_interface_exposing(unwrap(configuration), 4, "Out")
          = find_interface(unwrap(configuration), 2)
     /\ unwrap(find_endpoint(unwrap(configuration), 4, "Out")).type \in {"Bulk", "Interrupt"}
  THEN 0 ELSE BlinkOff

\* blink after a call: one further when the call is the next of the
\* sequence and the backend did not fail it.
blink_after(op, n, m, dir, rcp, result) ==
  IF /\ blink < Len(BlinkSequence)
     /\ BlinkSequence[blink + 1] = BlinkCall(op, n, m, dir, rcp)
     /\ result # "Usb"
  THEN blink + 1 ELSE BlinkOff

\* The url values enumeration leaves in a device record: none, or the
\* landing page decoded from the device's URL descriptor.
EnumeratedUrls ==
  {None, parse_webusb_url(read_into(255, <<6, 3, 1, 97, 46, 98>>)).value}

\* The device record as enumeration leaves it (opened: false,
\* device_handle: None), with its url among urls.
EnumeratedDevice(urls) ==
  /\ url \in urls
  /\ configurations \in
       {configurations_from(readable) : readable \in SUBSET (1..Len(ConfigDescriptors))}
  /\ configuration \in
       {None} \cup {Some(UsbConfiguration_from(ConfigDescriptors[k])) :
                      k \in 1..Len(ConfigDescriptors)}
  /\ opened = FALSE
  /\ device_handle = None
  /\ last = Called("enumerate", 0, 0, "-", "-", Return("Ok", <<>>))
  /\ reset_claimed = {}
  /\ buffer = <<>>
  /\ build = "release"
  /\ parsed = NotParsed
  /\ attached = <<>>
  /\ listing = NotListed

Init ==
  /\ EnumeratedDevice({None})
  /\ facade = None
  /\ backend_claimed = None
  /\ blink = blink_start

\* The requests of calls the backend accepted: all of them when the call
\* returned Ok, all but the last when a request failed.
accepted(out) ==
  IF out.result = "Ok" THEN out.calls
  ELSE IF out.calls = <<>> THEN <<>>
  ELSE SubSeq(out.calls, 1, Len(out.calls) - 1)

\* The handle's claims after a call: a handle just opened holds none and
\* a handle dropped by close holds none; an accepted claim_interface or
\* release_interface request adds or removes its interface; an accepted
\* set_active_configuration leaves no interface of the old configuration
\* claimed.
backend_claimed_after(op, n, out) ==
  LET reqs == {accepted(out)[k].req : k \in 1..Len(accepted(out))} IN
  IF ~is_some(backend_claimed) THEN None
  ELSE IF reqs \cap {"open", "close", "set_active_configuration"} # {} THEN Some({})
  ELSE IF "claim_interface" \in reqs THEN Some(unwrap(backend_claimed) \cup {n})
  ELSE IF "release_interface" \in reqs THEN Some(unwrap(backend_claimed) \ {n})
  ELSE backend_claimed

\* The answers of the facade's promise to a call that returned result in
\* the libusb build: the two backends behave alike, so the promise
\* resolves where the libusb backend succeeded and rejects where it
\* failed; where the libusb build did not reach its backend the facade may
\* answer either way.
facade_answers(result) ==
  IF result = "Ok" THEN {"Ok"}
  ELSE IF result = "Usb" THEN {"Err"}
  ELSE BackendAnswers

\* One call of the API: self and the record of the call afterwards.
Apply(op, n, m, dir, rcp, out) ==
  /\ opened' = out.opened
  /\ device_handle' = out.device_handle
  /\ configuration' = out.configuration
  /\ configurations' = configurations
  /\ last' = Called(op, n, m, dir, rcp, out)
  /\ reset_claimed' =
       IF op = "reset"
       THEN (IF out.result = "Ok" THEN claimed_interfaces(configuration) ELSE {})
       ELSE IF op \in {"claim_interface", "release_interface"}
       THEN reset_claimed \ {n}
       ELSE IF op \in {"open", "close", "select_configuration"}
       THEN {}
       ELSE reset_claimed
  /\ url' = out.url
  /\ backend_claimed' = backend_claimed_after(op, n, out)
  /\ blink' = blink_after(op, n, m, dir, rcp, out.result)
  /\ \E js \in facade_answers(out.result) : facade' = wasm_call(facade, op, js)
  /\ UNCHANGED <<buffer, build, parsed, attached, listing>>

Open ==
  \E bk \in BackendAnswers : Apply("open", 0, 0, "-", "-", open(bk))

Close ==
  Apply("close", 0, 0, "-", "-", close)

SelectConfiguration ==
  \E v \in ConfigurationValues :
    \E bk_descriptor \in BackendAnswers, bk_set \in BackendAnswers,
       bk_name \in BackendAnswers, bk_interface_name \in BackendAnswers :
      Apply("select_configuration", v, 0, "-", "-",
            select_configuration(v, bk_descriptor, bk_set, bk_name, bk_interface_name))

ClaimInterface ==
  \E n \in InterfaceNumbers, bk \in BackendAnswers :
    Apply("claim_interface", n, 0, "-", "-", claim_interface(n, bk))

ReleaseInterface ==
  \E n \in InterfaceNumbers, bk \in BackendAnswers :
    Apply("release_interface", n, 0, "-", "-", release_interface(n, bk))

SelectAlternateInterface ==
  \E n \in InterfaceNumbers, a \in AlternateSettings, bk \in BackendAnswers :
    Apply("select_alternate_interface", n, a, "-", "-",
          select_alternate_interface(n, a, bk))

ControlTransferIn ==
  \E rcp \in UsbRecipient, index \in SetupIndexes, bk \in BackendAnswers :
    Apply("control_transfer_in", index, 0, "-", rcp, control_transfer_in(rcp, index, bk))

ControlTransferOut ==
  \E rcp \in UsbRecipient, index \in SetupIndexes, bk \in BackendAnswers :
    Apply("control_transfer_out", index, 0, "-", rcp, control_transfer_out(rcp, index, bk))

ClearHalt ==
  \E d \in Direction, e \in EndpointNumbers, bk \in BackendAnswers :
    Apply("clear_halt", e, 0, d, "-", clear_halt(d, e, bk))

TransferIn ==
  \E e \in EndpointNumbers, bk \in BackendAnswers :
    Apply("transfer_in", e, 0, "In", "-", transfer_in(e, bk))

TransferOut ==
  \E e \in EndpointNumbers, bk \in BackendAnswers :
    Apply("transfer_out", e, 0, "Out", "-", transfer_out(e, bk))

Reset ==
  \E bk \in BackendAnswers : Apply("reset", 0, 0, "-", "-", reset(bk))

IsochronousTransferIn ==
  Apply("isochronous_transfer_in", 0, 0, "In", "-", isochronous_transfer_in)

IsochronousTransferOut ==
  Apply("isochronous_transfer_out", 0, 0, "Out", "-", isochronous_transfer_out)

Next ==
  \/ Open
  \/ Close
  \/ SelectConfiguration
  \/ ClaimInterface
  \/ ReleaseInterface
  \/ SelectAlternateInterface
  \/ ControlTransferIn
  \/ ControlTransferOut
  \/ ClearHalt
  \/ TransferIn
  \/ TransferOut
  \/ Reset
  \/ IsochronousTransferIn
  \/ IsochronousTransferOut

Spec == Init /\ [][Next]_vars

\* The same operations on a device enumerated with or without a landing
\* page.
InitUrl ==
  /\ EnumeratedDevice(EnumeratedUrls)
  /\ facade = None
  /\ backend_claimed = None
  /\ blink = BlinkOff

SpecUrl == InitUrl /\ [][Next]_vars

\* The libusb build and the wasm build of the record side by side, from
\* the same enumerated device (the wasm constructor takes every
\* configuration from the facade), through the same calls.
InitWasm ==
  /\ EnumeratedDevice({None})
  /\ Len(configurations) = Len(ConfigDescriptors)
  /\ facade = Some(WasmOutcome("Ok", opened, configuration))
  /\ backend_claimed = None
  /\ blink = BlinkOff

SpecWasm == InitWasm /\ [][Next]_vars

\* The device record together with the backend's side of its claims.
InitBackend ==
  /\ EnumeratedDevice({None})
  /\ facade = None
  /\ backend_claimed = Some({})
  /\ blink = BlinkOff

SpecBackend == InitBackend /\ [][Next]_vars

\* The opened field is public (pub opened: bool): a caller may assign it
\* without going through open() or close(), which leaves the handle as it
\* was.
SetOpened ==
  \E value \in BOOLEAN :
    /\ opened' = value
    /\ blink' = BlinkOff
    /\ last' = Called("set_opened", 0, 0, "-", "-", Return("Ok", <<>>))
    /\ UNCHANGED <<configurations, configuration, device_handle, reset_claimed,
                   buffer, build, parsed, attached, listing, url, facade,
                   backend_claimed>>

NextFields ==
  \/ Next
  \/ SetOpened

SpecFields == Init /\ [][NextFields]_vars


\* ------------------------------------------------------------------------
\* The descriptor parsers on their own: a byte slice as a device may
\* return it, parsed by either function, in a build with or without
\* overflow checks.
\* ------------------------------------------------------------------------
\* The most capability descriptors in a generated BOS descriptor.
MaxCaps == 3

RECURSIVE concat(_)
concat(parts) == IF Len(parts) = 0 THEN <<>> ELSE Head(parts) \o concat(Tail(parts))

zeros(n) == [k \in 1..n |-> 0]

\* Capability descriptors: Container ID and Microsoft OS 2.0 as in
\* test_parse_bos, a USB 2.0 Extension, a Platform capability with a given
\* UUID, and a non-Platform capability of a given length.
ContainerId ==
  <<20, 16, 4, 0, 42, 249, 246, 194, 152, 16, 43, 73, 142, 100, 255, 1, 12, 127, 148, 225>>

MsOs20 ==
  <<28, 16, 5, 0, 223, 96, 221, 216, 137, 69, 199, 76, 156, 210, 101, 157, 158, 100, 138, 159,
    0, 0, 3, 6, 0, 0, 1, 0>>

Usb20Extension == <<7, 16, 2, 2, 0, 0, 0>>

PlatformCapability(len, uuid, version, vendor_code, landing_page) ==
  <<len, 16, 5, 0>> \o uuid
    \o <<version % 256, version \div 256, vendor_code, landing_page>> \o zeros(len - 24)

WebUsbCapability(len, version, vendor_code, landing_page) ==
  PlatformCapability(len, WEB_USB_CAPABILITY_UUID, version, vendor_code, landing_page)

Filler(len) == <<len, 16, 4>> \o zeros(len - 3)

\* WEB_USB_CAPABILITY_UUID with the byte at position p changed.
NearUuid(p) == [WEB_USB_CAPABILITY_UUID EXCEPT ![p] = (@ + 1) % 256]

Capabilities ==
  { ContainerId, MsOs20, Usb20Extension,
    WebUsbCapability(24, 256, 66, 1),
    WebUsbCapability(24, 528, 67, 2),
    WebUsbCapability(24, 255, 68, 3),
    WebUsbCapability(25, 256, 69, 4) }

\* The BOS descriptor made of caps, with a true wTotalLength and count.
Bos(caps) ==
  LET total == 5 + Len(concat(caps)) IN
  <<5, 15, total % 256, total \div 256, Len(caps)>> \o concat(caps)

ShortBos == {Bos(caps) : caps \in UNION {[1..n -> Capabilities] : n \in 0..MaxCaps}}

NearUuidBos ==
  UNION {{Bos(<<PlatformCapability(24, NearUuid(p), 256, 70, 5)>>),
          Bos(<<PlatformCapability(24, NearUuid(p), 256, 70, 5),
                WebUsbCapability(24, 256, 66, 1)>>)} : p \in 1..16}

LongBos == {Bos(<<Filler(n), WebUsbCapability(24, 256, 66, 1)>>) : n \in {221, 222, 226, 227}}

\* What a faulty device may send instead of b: b cut short, or b with one
\* header field off.
Damaged(b) ==
  {SubSeq(b, 1, k) : k \in {0, 4, Len(b) - 1}}
    \cup { [b EXCEPT ![1] = 4],
           [b EXCEPT ![2] = 16],
           [b EXCEPT ![3] = (@ + 1) % 256],
           [b EXCEPT ![3] = 255, ![4] = 1],
           [b EXCEPT ![4] = 1],
           [b EXCEPT ![5] = @ + 1] }

\* One WebUSB capability of version 0x0100 whose bLength is n: cut short
\* below 24, padded above.
WebUsbCapabilityOfLength(n) ==
  IF n >= 24 THEN WebUsbCapability(n, 256, 71, 6)
  ELSE [SubSeq(WebUsbCapability(24, 256, 71, 6), 1, n) EXCEPT ![1] = n]

CapLengthBos == {Bos(<<WebUsbCapabilityOfLength(n)>>) : n \in 20..26}

\* Descriptors whose wTotalLength has a high byte of 1 while the sum of its
\* two bytes is the true length.
HighByteBos ==
  {[b EXCEPT ![3] = @ - 1, ![4] = 1] :
     b \in {Bos(<<WebUsbCapability(24, 256, 66, 1)>>), Bos(<<ContainerId>>)}}

BosInputs ==
  ShortBos \cup NearUuidBos \cup LongBos \cup CapLengthBos \cup HighByteBos
    \cup UNION {Damaged(b) : b \in ShortBos}

\* URL descriptors: declared length, descriptor type, scheme byte, text.
UrlTexts ==
  { <<>>, <<97, 46, 98>>, <<195, 169>>, <<97, 255, 98>>, <<195>>, <<226, 130, 172>>,
    <<226, 130>>, <<240, 159, 152, 128>> }

UrlInputs ==
  {<<Len(t) + 3 + d, type, scheme>> \o t :
     t \in UrlTexts, d \in {-1, 0, 1}, type \in {3, 15}, scheme \in {0, 1, 2}}
    \cup {<<>>, <<3>>, <<3, 3>>}

ParserInputs == BosInputs \cup UrlInputs

InitParse ==
  /\ url = None
  /\ backend_claimed = None
  /\ facade = None
  /\ blink = BlinkOff
  /\ configurations = <<>>
  /\ configuration = None
  /\ opened = FALSE
  /\ device_handle = None
  /\ last = Called("enumerate", 0, 0, "-", "-", Return("Ok", <<>>))
  /\ reset_claimed = {}
  /\ buffer \in ParserInputs
  /\ build \in {"debug", "release"}
  /\ parsed = NotParsed
  /\ attached = <<>>
  /\ listing = NotListed

ParseBos ==
  /\ parsed' = Parsed("parse_bos", parse_bos(buffer, build = "debug"))
  /\ UNCHANGED <<buffer, build, attached, listing>>
  /\ UNCHANGED <<configurations, configuration, opened, device_handle, last, reset_claimed, url, facade, blink, backend_claimed>>

ParseWebusbUrl ==
  /\ parsed' = Parsed("parse_webusb_url", parse_webusb_url(buffer))
  /\ UNCHANGED <<buffer, build, attached, listing>>
  /\ UNCHANGED <<configurations, configuration, opened, device_handle, last, reset_claimed, url, facade, blink, backend_claimed>>

NextParse ==
  \/ ParseBos
  \/ ParseWebusbUrl

SpecParse == InitParse /\ [][NextParse]_vars


\* ------------------------------------------------------------------------
\* Enumeration on its own: some devices on the bus, listed by one call of
\* Context::devices().
\* ------------------------------------------------------------------------
\* The most devices on the bus.
MaxAttached == 2

\* bcdUSB as <<major, minor>>: 1.1, 2.0, 2.1, 3.0, 3.1.
UsbVersions == {<<1, 1>>, <<2, 0>>, <<2, 1>>, <<3, 0>>, <<3, 1>>}

RusbErrors == {"Access", "Io"}

Faults ==
  [request : {"device_descriptor", "open", "bos_header", "bos", "url",
              "active_config_descriptor", "configuration_name", "interface_name"},
   index : {0}, error : RusbErrors]
    \cup [request : {"config_descriptor"}, index : 0..(Len(ConfigDescriptors) - 1),
          error : RusbErrors]

\* A USB 2.1 device with a WebUSB capability and a landing page.
WebUsbDevice ==
  [class_code |-> 0,
   usb_version |-> <<2, 1>>,
   bos |-> Bos(<<ContainerId, WebUsbCapability(24, 256, 66, 1)>>),
   url_descriptor |-> <<6, 3, 1, 97, 46, 98>>,
   fault |-> None]

\* BOS descriptors of other devices: no WebUSB capability, 256 bytes long,
\* shorter than a header, a capability count with no capabilities.
OtherBos ==
  { Bos(<<ContainerId>>),
    Bos(<<Filler(227), WebUsbCapability(24, 256, 66, 1)>>),
    <<5, 15, 5>>,
    <<5, 15, 5, 0, 1>> }

UsbDevices ==
  {[WebUsbDevice EXCEPT !.usb_version = v] : v \in UsbVersions}
    \cup {[WebUsbDevice EXCEPT !.fault = Some(f)] : f \in Faults}
    \cup {[WebUsbDevice EXCEPT !.bos = b] : b \in OtherBos}
    \cup {[WebUsbDevice EXCEPT !.class_code = 9]}

InitEnum ==
  /\ url = None
  /\ backend_claimed = None
  /\ facade = None
  /\ blink = BlinkOff
  /\ configurations = <<>>
  /\ configuration = None
  /\ opened = FALSE
  /\ device_handle = None
  /\ last = Called("enumerate", 0, 0, "-", "-", Return("Ok", <<>>))
  /\ reset_claimed = {}
  /\ buffer = <<>>
  /\ parsed = NotParsed
  /\ build \in {"debug", "release"}
  /\ attached \in UNION {[1..n -> UsbDevices] : n \in 0..MaxAttached}
  /\ listing = NotListed

Devices ==
  /\ \E bk \in BackendAnswers : listing' = devices(attached, bk, build = "debug")
  /\ UNCHANGED <<attached, buffer, build, parsed>>
  /\ UNCHANGED <<configurations, configuration, opened, device_handle, last, reset_claimed, url, facade, blink, backend_claimed>>

NextEnum == Devices

SpecEnum == InitEnum /\ [][NextEnum]_vars


\* ------------------------------------------------------------------------
\* Properties.
\* ------------------------------------------------------------------------
self == <<opened, device_handle, configuration, configurations>>

\* A device as enumeration hands it out: closed, no handle, nothing claimed.
Fresh ==
  /\ ~opened
  /\ ~is_some(device_handle)
  /\ claimed_interfaces(configuration) = {}

has_configuration(v) ==
  \E i \in 1..Len(configurations) : configurations[i].configuration_value = v

has_interface(n) ==
  /\ is_some(configuration)
  /\ \E k \in 1..Len(unwrap(configuration).interfaces) :
       unwrap(configuration).interfaces[k].interface_number = n

has_endpoint(e, d) ==
  /\ is_some(configuration)
  /\ \E k \in 1..Len(unwrap(configuration).interfaces) :
       exposes_endpoint(unwrap(configuration).interfaces[k], e, d)

\* C1: in every reachable state, opened is true if and only if the backend
\* handle is present.
C1_OpenedIffHandle == opened <=> is_some(device_handle)

C1_Witness == opened /\ is_some(device_handle) /\ last.result = "Usb"

\* C2: every interface whose claimed flag is true belongs to the selected
\* configuration and the device is opened; nothing is claimed while closed.
C2_ClaimedOnlyWhileOpened ==
  /\ claimed_interfaces(configuration) # {} => opened
  /\ \A i \in 1..Len(configurations) :
       \A k \in 1..Len(configurations[i].interfaces) :
         ~configurations[i].interfaces[k].claimed

\* C3: close() returns success and leaves the device closed, the handle
\* released and every claimed flag false.
C3_CloseReleasesAll ==
  last.op = "close" =>
    /\ last.result = "Ok"
    /\ ~opened
    /\ ~is_some(device_handle)
    /\ claimed_interfaces(configuration) = {}

\* C4 as stated: on a fresh device every state-dependent operation yields
\* InvalidState whatever its arguments, and close yields success.
C4_FreshAlwaysInvalidState ==
  [][Fresh =>
       /\ last'.op \in {"select_configuration", "claim_interface", "release_interface",
                        "select_alternate_interface", "transfer_in", "transfer_out",
                        "clear_halt", "control_transfer_in", "control_transfer_out",
                        "reset"}
            => last'.result = "InvalidState"
       /\ last'.op = "close" => last'.result = "Ok"]_vars

\* C4 amended: on a fresh device each of these operations yields an error,
\* never success, and leaves the device as it was: control transfers and
\* reset yield InvalidState for any arguments; the others yield NotFound
\* when the argument names no configuration, interface or endpoint,
\* InvalidAccess when the endpoint is neither Bulk nor Interrupt,
\* select_configuration possibly Usb when the backend fails the descriptor
\* read, and InvalidState otherwise; close yields success.
C4_FreshGate ==
  [][Fresh =>
       /\ last'.op \in {"control_transfer_in", "control_transfer_out", "reset"}
            => last'.result = "InvalidState"
       /\ last'.op = "close" => last'.result = "Ok"
       /\ last'.op = "select_configuration"
            => IF has_configuration(last'.n)
               THEN last'.result \in {"InvalidState", "Usb"}
               ELSE last'.result = "NotFound"
       /\ last'.op \in {"claim_interface", "release_interface", "select_alternate_interface"}
            => last'.result = IF has_interface(last'.n) THEN "InvalidState" ELSE "NotFound"
       /\ last'.op = "clear_halt"
            => last'.result =
                 IF has_endpoint(last'.n, last'.dir) THEN "InvalidState" ELSE "NotFound"
       /\ last'.op \in {"transfer_in", "transfer_out"}
            => last'.result =
                 IF ~has_endpoint(last'.n, last'.dir) THEN "NotFound"
                 ELSE IF unwrap(find_endpoint(unwrap(configuration), last'.n, last'.dir)).type
                           \notin {"Bulk", "Interrupt"}
                 THEN "InvalidAccess"
                 ELSE "InvalidState"
       /\ last'.op # "open" => UNCHANGED self]_vars

C4_Witness ==
  /\ Fresh
  /\ last.op = "claim_interface"
  /\ last.result = "InvalidState"

\* C5: an operation that returns NotFound, InvalidState or InvalidAccess
\* leaves opened, the handle, the selected configuration, every claimed
\* flag and every selected alternate as they were.
C5_PreconditionFailureFrame ==
  [][last'.result \in {"NotFound", "InvalidState", "InvalidAccess"}
       => UNCHANGED self]_vars

C5_Witness ==
  /\ last.result = "InvalidState"
  /\ opened
  /\ claimed_interfaces(configuration) # {}

\* Call c is one that requires a claim on interface n.
requires_claim_on(c, n) ==
  \/ c.op = "select_alternate_interface" /\ c.n = n
  \/ /\ c.op = "clear_halt"
     /\ is_some(configuration)
     /\ LET itfs == unwrap(configuration).interfaces
            i == find_interface_exposing(unwrap(configuration), c.n, c.dir)
        IN i # 0 /\ itfs[i].interface_number = n
  \/ /\ c.op \in {"control_transfer_in", "control_transfer_out"}
     /\ c.rcp = "Interface"
     /\ c.n % 256 = n

\* C6 as stated: after a successful reset with interface n claimed, the
\* operations requiring a claim on n fail until claim_interface(n) is called.
C6_ResetRequiresFreshClaim ==
  \A n \in reset_claimed : requires_claim_on(last, n) => last.result # "Ok"

\* C6 amended: a successful reset leaves the device record, the claimed
\* flags included, as it was; so after it an operation requiring a claim on
\* an interface that was claimed at the reset is not rejected but handed to
\* the backend, with no claim_interface in between.
C6_ResetKeepsClaims ==
  /\ [](\A n \in reset_claimed :
          requires_claim_on(last, n) =>
            last.result \in {"Ok", "Usb"} /\ last.calls # <<>>)
  /\ [][last'.op = "reset" /\ last'.result = "Ok" => UNCHANGED self]_vars

C6_Witness ==
  /\ last.op = "select_alternate_interface"
  /\ last.n \in reset_claimed
  /\ last.result = "Ok"

\* C7: open on an opened device and close on a closed device return success,
\* issue no backend request and change nothing.
C7_OpenCloseIdempotent ==
  [][/\ (opened /\ last'.op = "open")
          => last'.result = "Ok" /\ last'.calls = <<>> /\ UNCHANGED self
     /\ (~opened /\ last'.op = "close")
          => last'.result = "Ok" /\ last'.calls = <<>> /\ UNCHANGED self]_vars

C7_Witness ==
  /\ last.op = "open"
  /\ last.result = "Ok"
  /\ last.calls = <<>>
  /\ opened

\* C8: on an opened device, claim_interface(n) on a claimed interface and
\* release_interface(n) on an unclaimed one return success, issue no backend
\* request and change nothing.
C8_ClaimReleaseIdempotent ==
  [][opened =>
       /\ (last'.op = "claim_interface" /\ last'.n \in claimed_interfaces(configuration))
            => last'.result = "Ok" /\ last'.calls = <<>> /\ UNCHANGED self
       /\ (/\ last'.op = "release_interface"
           /\ has_interface(last'.n)
           /\ last'.n \notin claimed_interfaces(configuration))
            => last'.result = "Ok" /\ last'.calls = <<>> /\ UNCHANGED self]_vars

C8_Witness ==
  /\ last.op = "claim_interface"
  /\ last.result = "Ok"
  /\ last.calls = <<>>
  /\ last.n \in claimed_interfaces(configuration)

\* C9: after select_configuration(v) succeeds the current configuration is
\* the element of configurations whose configuration_value is v, and no
\* interface is claimed.
C9_SelectsMatchingConfiguration ==
  (last.op = "select_configuration" /\ last.result = "Ok") =>
    /\ is_some(configuration)
    /\ unwrap(configuration).configuration_value = last.n
    /\ \E i \in 1..Len(configurations) : configurations[i] = unwrap(configuration)
    /\ claimed_interfaces(configuration) = {}

\* new is old with the claimed flag of interface n set to b, all else equal.
claimed_set_to(old, new, n, b) ==
  /\ is_some(old)
  /\ \E k \in 1..Len(unwrap(old).interfaces) : unwrap(old).interfaces[k].interface_number = n
  /\ new = Some([unwrap(old) EXCEPT
                   !.interfaces = [k \in DOMAIN @ |->
                                     IF @[k].interface_number = n
                                     THEN [@[k] EXCEPT !.claimed = b]
                                     ELSE @[k]]])

\* C10: a successful claim_interface(n) sets the claimed flag of interface n
\* to true, a successful release_interface(n) to false, and neither changes
\* any other interface, the opened flag or which configuration is selected.
C10_ClaimReleaseEffect ==
  [][/\ (last'.op = "claim_interface" /\ last'.result = "Ok")
          => /\ claimed_set_to(configuration, configuration', last'.n, TRUE)
             /\ opened /\ UNCHANGED <<opened, device_handle, configurations>>
     /\ (last'.op = "release_interface" /\ last'.result = "Ok")
          => /\ claimed_set_to(configuration, configuration', last'.n, FALSE)
             /\ opened /\ UNCHANGED <<opened, device_handle, configurations>>]_vars

C10_Witness ==
  /\ last.op = "release_interface"
  /\ last.result = "Ok"
  /\ last.calls # <<>>
  /\ claimed_interfaces(configuration) # {}

\* C11: select_alternate_interface(n, a) on an interface n of the current
\* configuration returns InvalidState and sends nothing to the backend
\* unless the device is opened and interface n is claimed.
C11_AlternateRequiresOpenedAndClaimed ==
  [][(/\ last'.op = "select_alternate_interface"
      /\ has_interface(last'.n)
      /\ ~(opened /\ last'.n \in claimed_interfaces(configuration)))
     => (last'.result = "InvalidState" /\ last'.calls = <<>>)]_vars

C11_Witness ==
  /\ last.op = "select_alternate_interface"
  /\ opened
  /\ has_interface(last.n)
  /\ last.n \notin claimed_interfaces(configuration)
  /\ last.result = "InvalidState"
  /\ last.calls = <<>>

\* C12: after select_alternate_interface(n, a) succeeds with a naming one
\* of the alternates of interface n, the selected alternate of interface n
\* is the element of its alternates whose alternate_setting is a, the
\* setting sent to the backend.
C12_AlternateMirrored ==
  (/\ last.op = "select_alternate_interface"
   /\ last.result = "Ok"
   /\ has_interface(last.n))
  => LET itf == unwrap(configuration).interfaces[find_interface(unwrap(configuration), last.n)]
     IN (\E k \in 1..Len(itf.alternates) : itf.alternates[k].alternate_setting = last.m)
        => (/\ last.calls = <<Call("set_alternate_setting", last.n, last.m)>>
            /\ itf.alternate.alternate_setting = last.m
            /\ \E k \in 1..Len(itf.alternates) : itf.alternates[k] = itf.alternate)

\* The two control transfer operations.
ControlTransfers == {"control_transfer_in", "control_transfer_out"}

\* The request a control transfer sends to the backend.
control_request(op) == IF op = "control_transfer_in" THEN "read_control" ELSE "write_control"

\* C13: on an opened device with a selected configuration, a control
\* transfer with recipient Interface addresses the interface numbered by
\* the low byte of setup.index: NotFound when the configuration has no such
\* interface, InvalidState when it is not claimed, and the backend is
\* reached only when it is claimed.
C13_ControlInterfaceRecipient ==
  (/\ last.op \in ControlTransfers
   /\ last.rcp = "Interface"
   /\ opened
   /\ is_some(configuration))
  => LET n == last.n % 256 IN
     IF ~has_interface(n)
     THEN last.result = "NotFound" /\ last.calls = <<>>
     ELSE IF n \notin claimed_interfaces(configuration)
     THEN last.result = "InvalidState" /\ last.calls = <<>>
     ELSE /\ last.result \in {"Ok", "Usb"}
          /\ last.calls = <<Call(control_request(last.op), last.n, 0)>>

C13_Witness ==
  /\ last.op \in ControlTransfers
  /\ last.rcp = "Interface"
  /\ last.n = 258
  /\ opened
  /\ 2 \in claimed_interfaces(configuration)
  /\ last.result = "Ok"

\* C14: on an opened device with a selected configuration, a control
\* transfer with recipient Endpoint is validated against endpoint number
\* setup.index & 0x0F and direction In when bit 8 of setup.index is set,
\* else Out: it passes validation exactly when some interface of the
\* configuration exposes that endpoint, and returns NotFound otherwise.
C14_ControlEndpointRecipient ==
  (/\ last.op \in ControlTransfers
   /\ last.rcp = "Endpoint"
   /\ opened
   /\ is_some(configuration))
  => LET e == last.n % 16
         d == IF (last.n \div 256) % 2 = 1 THEN "In" ELSE "Out"
     IN IF has_endpoint(e, d)
        THEN last.result \in {"Ok", "Usb"} /\ last.calls # <<>>
        ELSE last.result = "NotFound" /\ last.calls = <<>>

\* C15: on a closed device a control transfer returns InvalidState whatever
\* its setup; on an opened device with no configuration selected any
\* recipient and index reach the backend; recipients Device and Other are
\* not constrained by setup.index.
C15_ControlGate ==
  last.op \in ControlTransfers
  => /\ ~opened => (last.result = "InvalidState" /\ last.calls = <<>>)
     /\ (opened /\ (~is_some(configuration) \/ last.rcp \in {"Device", "Other"}))
        => /\ last.result \in {"Ok", "Usb"}
           /\ last.calls = <<Call(control_request(last.op), last.n, 0)>>

C15_Witness ==
  /\ last.op \in ControlTransfers
  /\ opened
  /\ ~is_some(configuration)
  /\ last.rcp = "Interface"
  /\ last.n = 258
  /\ last.result = "Ok"
  /\ last.calls # <<>>

\* The two bulk/interrupt transfer operations.
Transfers == {"transfer_in", "transfer_out"}

\* The numbers of the interfaces of the current configuration exposing
\* endpoint e with direction d in some alternate.
owners(e, d) ==
  IF is_some(configuration)
  THEN {unwrap(configuration).interfaces[k].interface_number :
          k \in {j \in 1..Len(unwrap(configuration).interfaces) :
                   exposes_endpoint(unwrap(configuration).interfaces[j], e, d)}}
  ELSE {}

\* C16: transfer_in and transfer_out on an opened device reach the backend
\* only if the interface owning the addressed endpoint is claimed; with
\* the owning interface unclaimed no bulk or interrupt request is issued.
C16_TransferRequiresClaim ==
  (last.op \in Transfers /\ opened /\ last.calls # <<>>)
  => owners(last.n, last.dir) \subseteq claimed_interfaces(configuration)

\* The types of the endpoints of the current configuration with number e
\* and direction d, over every alternate of every interface.
endpoint_types(e, d) ==
  IF is_some(configuration)
  THEN LET itfs == unwrap(configuration).interfaces
           eps_of(alt) == {alt.endpoints[k] : k \in 1..Len(alt.endpoints)}
           alts_of(itf) == {itf.alternates[a] : a \in 1..Len(itf.alternates)}
           all == UNION {UNION {eps_of(alt) : alt \in alts_of(itfs[i])} : i \in 1..Len(itfs)}
       IN {ep.type : ep \in {x \in all : x.endpoint_number = e /\ x.direction = d}}
  ELSE {}

\* The request a transfer on an endpoint of type t sends to the backend.
transfer_request(op, t) ==
  IF op = "transfer_in"
  THEN (IF t = "Bulk" THEN "read_bulk" ELSE "read_interrupt")
  ELSE (IF t = "Bulk" THEN "write_bulk" ELSE "write_interrupt")

\* C17: transfer_in(e) and transfer_out(e) check in this order: NotFound
\* when no endpoint e with the matching direction exists in any alternate
\* of any interface of the current configuration, then InvalidAccess when
\* its type is neither Bulk nor Interrupt, then InvalidState when the
\* device is not opened; only then the bulk or interrupt request matching
\* the endpoint type is sent to the backend.
C17_TransferCheckOrder ==
  last.op \in Transfers
  => LET types == endpoint_types(last.n, last.dir)
         addr == last.n + (IF last.dir = "In" THEN 128 ELSE 0)
     IN /\ last.dir = (IF last.op = "transfer_in" THEN "In" ELSE "Out")
        /\ IF types = {}
           THEN last.result = "NotFound" /\ last.calls = <<>>
           ELSE IF types \cap {"Bulk", "Interrupt"} = {}
           THEN last.result = "InvalidAccess" /\ last.calls = <<>>
           ELSE IF ~opened
           THEN last.result = "InvalidState" /\ last.calls = <<>>
           ELSE /\ last.result \in {"Ok", "Usb"}
                /\ \E t \in types \cap {"Bulk", "Interrupt"} :
                     last.calls = <<Call(transfer_request(last.op, t), addr, 0)>>

C17_Witness ==
  /\ last.op = "transfer_out"
  /\ ~opened
  /\ endpoint_types(last.n, "Out") = {"Isochronous"}
  /\ last.result = "InvalidAccess"

\* C18: clear_halt(direction, e) returns NotFound when no interface of the
\* current configuration exposes endpoint e with that direction, returns
\* InvalidState unless the device is opened and the interface owning the
\* endpoint is claimed, and otherwise delegates to the backend.
C18_ClearHaltGate ==
  last.op = "clear_halt"
  => IF owners(last.n, last.dir) = {}
     THEN last.result = "NotFound" /\ last.calls = <<>>
     ELSE IF ~(opened /\ owners(last.n, last.dir) \subseteq claimed_interfaces(configuration))
     THEN last.result = "InvalidState" /\ last.calls = <<>>
     ELSE /\ last.result \in {"Ok", "Usb"}
          /\ last.calls = <<Call("clear_halt", last.n + (IF last.dir = "In" THEN 128 ELSE 0), 0)>>

C18_Witness ==
  /\ last.op = "clear_halt"
  /\ opened
  /\ owners(last.n, last.dir) # {}
  /\ owners(last.n, last.dir) \subseteq claimed_interfaces(configuration)
  /\ last.dir = "In"
  /\ last.result = "Ok"
  /\ last.calls # <<>>

\* ------------------------------------------------------------------------
\* Properties of the descriptor parsers (SpecParse).
\* ------------------------------------------------------------------------
\* C19: parse_bos and parse_webusb_url are total: on every byte sequence
\* they return a value or absent, and never panic, index out of bounds or
\* overflow.
C19_ParsersTotal ==
  parsed.fn \in {"parse_bos", "parse_webusb_url"} => ~parsed.panic

\* The capability descriptors laid end to end in rest, each as long as its
\* bLength says and of type DEVICE CAPABILITY; None when rest is no such
\* chain.
RECURSIVE capability_descriptors(_)
capability_descriptors(rest) ==
  IF Len(rest) = 0 THEN Some(<<>>)
  ELSE IF Len(rest) < 3 \/ rest[1] < 3 \/ rest[1] > Len(rest) \/ rest[2] # 16 THEN None
  ELSE LET more == capability_descriptors(SubSeq(rest, rest[1] + 1, Len(rest))) IN
       IF is_some(more) THEN Some(<<SubSeq(rest, 1, rest[1])>> \o unwrap(more)) ELSE None

\* A Platform capability descriptor carrying the WebUSB UUID.
carries_webusb_uuid(cap) ==
  /\ cap[3] = 5
  /\ Len(cap) >= 20
  /\ \A k \in 1..16 : cap[4 + k] = WEB_USB_CAPABILITY_UUID[k]

\* b is a BOS descriptor whose header tells the truth: bLength 5, type BOS,
\* wTotalLength (16 bits, little-endian) the length of b, bNumDeviceCaps
\* the number of capability descriptors that fill the rest of b, Platform
\* capabilities holding a UUID and WebUSB ones both WebUSB fields.
WellFormedBos(b) ==
  /\ Len(b) >= 5
  /\ b[1] = 5
  /\ b[2] = 15
  /\ b[3] + 256 * b[4] = Len(b)
  /\ LET caps == capability_descriptors(SubSeq(b, 6, Len(b))) IN
     /\ is_some(caps)
     /\ Len(unwrap(caps)) = b[5]
     /\ \A k \in 1..Len(unwrap(caps)) :
          LET cap == unwrap(caps)[k] IN
          /\ cap[3] = 5 => Len(cap) >= 20
          /\ carries_webusb_uuid(cap) => Len(cap) >= 24

\* (bVendorCode, iLandingPage) of the first WebUSB capability of b with
\* bcdVersion >= 0x0100, None when b has none.
first_webusb_capability(b) ==
  LET caps == unwrap(capability_descriptors(SubSeq(b, 6, Len(b))))
      hits == {k \in 1..Len(caps) :
                 carries_webusb_uuid(caps[k]) /\ caps[k][21] + 256 * caps[k][22] >= 256}
  IN IF hits = {} THEN None
     ELSE LET k == CHOOSE h \in hits : \A g \in hits : h <= g
          IN Some(<<caps[k][23], caps[k][24]>>)

\* C20: for every well-formed BOS byte sequence, parse_bos returns bytes 22
\* and 23 of the first capability in scan order that is a Platform
\* capability carrying the WebUSB UUID with bcdVersion >= 0x0100, skipping
\* non-Platform capabilities, Platform capabilities with another UUID and
\* WebUSB capabilities with a lower bcdVersion; absent when none matches.
C20_FirstWebUsbCapability ==
  (parsed.fn = "parse_bos" /\ WellFormedBos(buffer))
  => (~parsed.panic /\ parsed.value = first_webusb_capability(buffer))

\* C21: in parse_bos a matching WebUSB Platform capability (WebUSB UUID,
\* bcdVersion >= 0x0100) is accepted whenever its bLength is at least 24,
\* also above 24, and yields its bytes 22 and 23; only a bLength below 24
\* yields absent.  Stated for a BOS descriptor holding that one capability.
C21_AcceptsCapabilityOf24OrMore ==
  LET caps == capability_descriptors(SubSeq(buffer, 6, Len(buffer))) IN
  (/\ parsed.fn = "parse_bos"
   /\ Len(buffer) >= 5
   /\ buffer[1] = 5 /\ buffer[2] = 15 /\ buffer[3] = Len(buffer) /\ buffer[4] = 0
   /\ buffer[5] = 1
   /\ is_some(caps)
   /\ Len(unwrap(caps)) = 1
   /\ carries_webusb_uuid(unwrap(caps)[1])
   /\ Len(unwrap(caps)[1]) >= 22 => unwrap(caps)[1][21] + 256 * unwrap(caps)[1][22] >= 256)
  => LET cap == unwrap(caps)[1] IN
     /\ ~parsed.panic
     /\ parsed.value = IF Len(cap) >= 24 THEN Some(<<cap[23], cap[24]>>) ELSE None

\* C22: parse_webusb_url returns absent unless bytes[0] >= 3, bytes[0] <=
\* len(bytes) and bytes[1] = 0x03; otherwise it returns "http://" (scheme
\* byte 0) or "https://" (scheme byte 1) followed by the lossy UTF-8
\* decoding of exactly bytes 3..bytes[0], and absent for every other scheme
\* byte.
C22_UrlDescriptor ==
  parsed.fn = "parse_webusb_url"
  => /\ ~parsed.panic
     /\ IF ~(/\ Len(buffer) >= 2
             /\ buffer[1] >= 3
             /\ buffer[1] <= Len(buffer)
             /\ buffer[2] = 3)
        THEN parsed.value = None
        ELSE LET text == from_utf8_lossy(SubSeq(buffer, 4, buffer[1])) IN
             CASE buffer[3] = 0 ->
                    parsed.value = Some(<<104, 116, 116, 112, 58, 47, 47>> \o text)
               [] buffer[3] = 1 ->
                    parsed.value = Some(<<104, 116, 116, 112, 115, 58, 47, 47>> \o text)
               [] OTHER -> parsed.value = None

C22_Witness ==
  /\ parsed.fn = "parse_webusb_url"
  /\ buffer = <<5, 3, 1, 97, 46, 98>>
  /\ parsed.value = Some(<<104, 116, 116, 112, 115, 58, 47, 47, 97, 46>>)

\* ------------------------------------------------------------------------
\* Properties of enumeration (SpecEnum).
\* ------------------------------------------------------------------------
\* Context::devices() was called and the backend listed the bus.
Listed == listing.result # "-" /\ ~(listing.result = "Usb" /\ listing.attempts = <<>>)

\* d is a USB 2.1 device, no hub, on which one control read of URL
\* discovery fails.
url_read_fails(d) ==
  /\ d.class_code # 9
  /\ d.usb_version = <<2, 1>>
  /\ fails(d, "bos_header") \/ fails(d, "bos") \/ fails(d, "url")

\* C23: if a control read of the URL-discovery pipeline (the 5-byte BOS
\* header read, the full BOS read or the vendor URL read) fails, the device
\* is still returned by devices() with url absent and enumeration as a
\* whole succeeds.  Stated for a bus holding that one device.
C23_UrlReadFailureKeepsDevice ==
  (Listed /\ Len(attached) = 1 /\ url_read_fails(attached[1]))
  => /\ listing.result = "Ok"
     /\ Len(listing.devices) = 1
     /\ listing.devices[1].url = None

\* C24: devices() returns no hub (device class 9), silently omits every
\* device whose record construction fails with the backend Access fault,
\* and returns any other construction failure to the caller as an error
\* instead of aborting.
C24_DevicesFiltering ==
  LET failed == {k \in 1..Len(listing.attempts) : listing.attempts[k].result = "Usb"}
      built == {k \in 1..Len(listing.attempts) : listing.attempts[k].result = "Ok"}
  IN
  (Listed /\ \A k \in 1..Len(listing.attempts) : listing.attempts[k].result # "panic")
  => /\ \A k \in 1..Len(listing.devices) : listing.devices[k].device_class # 9
     /\ IF \E k \in failed : listing.attempts[k].error # "Access"
        THEN listing.result = "Usb"
        ELSE listing.result = "Ok" /\ Len(listing.devices) = Cardinality(built)

\* C30: for every device returned by enumeration, configurations.len()
\* equals bNumConfigurations of its device descriptor, whatever the backend
\* answers to the configuration-descriptor reads.
C30_AllConfigurationsListed ==
  listing.result = "Ok"
  => \A k \in 1..Len(listing.devices) :
       Len(listing.devices[k].configurations) = Len(ConfigDescriptors)

\* ------------------------------------------------------------------------
\* Properties of UsbDevice (Spec), continued.
\* ------------------------------------------------------------------------
\* The results that are no backend failure: success and the precondition
\* errors.
NoBackendFailure == {"Ok", "NotFound", "InvalidState", "InvalidAccess"}

HandleOperations ==
  {"close", "select_configuration", "claim_interface", "release_interface",
   "select_alternate_interface", "control_transfer_in", "control_transfer_out",
   "transfer_in", "transfer_out", "clear_halt", "reset"}

\* C26: on a device with opened = true and no backend handle, no
\* operation that needs the handle aborts: where it would use the handle
\* it returns InvalidState.  An abort leaves the object as it was, so the
\* state after the call still has opened = true and no handle.
C26_NoAbortWithoutHandle ==
  (opened /\ ~is_some(device_handle) /\ last.op \in HandleOperations)
    => last.result # "panic"

\* The error values of Error.
Errors == {"Usb", "NotFound", "InvalidState", "InvalidAccess"}

\* The operations the closed-device contract names.
ClosedOperations ==
  {"select_configuration", "claim_interface", "select_alternate_interface",
   "control_transfer_out", "transfer_out", "clear_halt", "release_interface",
   "reset"}

\* C27: on a device with opened = false, select_configuration,
\* claim_interface, select_alternate_interface, control_transfer_out,
\* transfer_out, clear_halt, release_interface and reset return an error
\* for every argument and leave the device unchanged, and close returns
\* success.
C27_ClosedDeviceRefuses ==
  [][~opened =>
       /\ last'.op \in ClosedOperations => (last'.result \in Errors /\ UNCHANGED self)
       /\ last'.op = "close" => last'.result = "Ok"]_vars

\* A closed device refuses to release an interface that exists and to
\* claim one whose flag is still set from before close().
C27_Witness ==
  /\ ~opened
  /\ last.op \in {"claim_interface", "release_interface"}
  /\ last.result = "InvalidState"
  /\ claimed_interfaces(configuration) # {}

\* No element of configurations has this configuration value.
no_configuration(configuration_value) ==
  \A k \in 1..Len(configurations) :
    configurations[k].configuration_value # configuration_value

\* No configuration is selected, or the selected one has no interface of
\* this number.
no_interface(interface_number) ==
  \/ ~is_some(configuration)
  \/ find_interface(unwrap(configuration), interface_number) = 0

\* C28: select_configuration(v) with v matching no element of
\* configurations, and claim_interface(n), release_interface(n) and
\* select_alternate_interface(n, a) with n naming no interface of the
\* selected configuration or with none selected, return NotFound and leave
\* the device unchanged, whether it is opened or closed.
C28_NotFoundBeforeOpened ==
  [][/\ (last'.op = "select_configuration" /\ no_configuration(last'.n))
          => (last'.result = "NotFound" /\ UNCHANGED self)
     /\ (/\ last'.op \in {"claim_interface", "release_interface",
                          "select_alternate_interface"}
         /\ no_interface(last'.n))
          => (last'.result = "NotFound" /\ UNCHANGED self)]_vars

\* A closed device with a configuration selected answered NotFound for an
\* interface number the configuration does not have.
C28_Witness ==
  /\ ~opened
  /\ is_some(configuration)
  /\ last.op \in {"claim_interface", "release_interface", "select_alternate_interface"}
  /\ no_interface(last.n)
  /\ last.result = "NotFound"

\* C29: in every reachable state the selected configuration, when
\* present, equals by value (claimed flags and selected alternates of its
\* interfaces included) some element of the configurations list.
C29_ConfigurationIsListed ==
  is_some(configuration)
    => \E k \in 1..Len(configurations) : configurations[k] = unwrap(configuration)

\* C31: no operation of the device changes its url: through open, close,
\* select_configuration, claim_interface, release_interface,
\* select_alternate_interface, reset, clear_halt and the transfers it stays
\* the value computed at enumeration.
C31_UrlImmutable ==
  [][url' = url]_vars

\* An opened device with a landing page has had an interface claimed.
C31_Witness ==
  /\ is_some(url)
  /\ opened
  /\ last.op = "claim_interface"
  /\ last.result = "Ok"
  /\ last.calls # <<>>

\* C32: isochronous_transfer_in and isochronous_transfer_out abort in
\* every state of the device, opened or not; they never return, neither
\* success nor the NotFound error, and leave the device as it was.
C32_IsochronousUnimplemented ==
  [][last'.op \in {"isochronous_transfer_in", "isochronous_transfer_out"}
       => (last'.result = "panic" /\ last'.calls = <<>> /\ UNCHANGED self)]_vars

\* An isochronous transfer was tried on an opened device with a claimed
\* interface.
C32_Witness ==
  /\ opened
  /\ claimed_interfaces(configuration) # {}
  /\ last.op \in {"isochronous_transfer_in", "isochronous_transfer_out"}
  /\ last.result = "panic"

\* The outcome kinds the two builds are compared on.
OutcomeKinds == {"Ok", "NotFound", "InvalidState", "InvalidAccess"}

\* C33: the wasm build and the libusb build have the same semantics: after
\* every sequence of calls from the same initial state, the most recent
\* call returned the same outcome kind (success, NotFound, InvalidState,
\* InvalidAccess) in both, and both records have the same opened flag,
\* selected configuration and claimed flags.
C33_BackendsAgree ==
  (is_some(facade) /\ last.op # "enumerate" /\ last.result \in OutcomeKinds)
    => /\ unwrap(facade).result = last.result
       /\ unwrap(facade).opened = opened
       /\ unwrap(facade).configuration = configuration

\* C34: on a device whose active configuration has interface 2 exposing
\* Out endpoint 4 of type Bulk or Interrupt, with a backend that never
\* fails, every call of the sequence open; claim_interface(2);
\* select_alternate_interface(2, 0); control_transfer_out; transfer_out(4);
\* clear_halt(Out, 4); transfer_out(4); clear_halt(Out, 4);
\* control_transfer_out; release_interface(2); reset; close returns
\* success, and the sequence ends with the device closed and nothing
\* claimed.
C34_BlinkSucceeds ==
  /\ blink \in 1..Len(BlinkSequence) => last.result = "Ok"
  /\ blink = Len(BlinkSequence) => (~opened /\ claimed_interfaces(configuration) = {})

\* The whole sequence has run.
C34_Witness ==
  /\ blink = Len(BlinkSequence)
  /\ last.op = "close"
  /\ last.result = "Ok"

\* C35: in every reachable state an interface's claimed flag is true
\* exactly when the interface is claimed on the device's current backend
\* handle, so no operation gated on the flag reaches the backend for an
\* interface it does not hold and claim_interface is never skipped as
\* already claimed while the backend holds no claim.
C35_FlagsMatchBackend ==
  is_some(backend_claimed)
    => claimed_interfaces(configuration) = unwrap(backend_claimed)

\* C36: select_configuration is all-or-nothing towards the backend: when
\* select_configuration(v) returns an error, the backend accepted no
\* set_active_configuration request in that call, so its active
\* configuration is the one from before the call.
C36_SelectConfigurationAtomic ==
  (last.op = "select_configuration" /\ last.result \in Errors)
    => \A k \in 1..Len(accepted(last)) :
         accepted(last)[k].req # "set_active_configuration"

\* wTotalLength of a BOS header: the 16-bit little-endian value of bytes 2
\* and 3.
wTotalLength(bytes) == at(bytes, 2) + 256 * at(bytes, 3)

\* C37: parse_bos judges the header by the 16-bit little-endian
\* wTotalLength = bytes[2] | (bytes[3] << 8): it returns absent unless
\* 5 <= wTotalLength <= len(bytes), also when bytes[3] is not 0.
C37_TotalLength16 ==
  (/\ parsed.fn = "parse_bos"
   /\ Len(buffer) >= 5
   /\ ~(5 <= wTotalLength(buffer) /\ wTotalLength(buffer) <= Len(buffer)))
    => (~parsed.panic /\ parsed.value = None)

\* The requests of the only construction attempt of a listing.
attempt_calls == listing.attempts[1].calls

\* C38: during URL discovery the second BOS read requests exactly the
\* 16-bit little-endian total length found in bytes 2..4 of the 5-byte BOS
\* header, also for total lengths of 256 bytes or more.  Stated for a bus
\* holding one device; the requests of its construction are open, the
\* header read, the full read.
C38_SecondReadLength ==
  (/\ Listed
   /\ Len(attached) = 1
   /\ Len(listing.attempts) = 1
   /\ Len(attempt_calls) >= 3)
    => /\ attempt_calls[3].req = "read_control"
       /\ attempt_calls[3].b = wTotalLength(attached[1].bos)

\* bcdUSB of device d is at least 0x0210.
at_least_usb_2_1(d) ==
  d.usb_version[1] > 2 \/ (d.usb_version[1] = 2 /\ d.usb_version[2] >= 1)

\* C39: enumeration performs WebUSB URL discovery (the BOS header read
\* after open) for exactly the devices whose bcdUSB is at least 0x0210: for
\* 0x0210, 0x0300 and 0x0310, not for 0x0200 or 0x0110.  Stated for a bus
\* holding one device that can be opened.
C39_DiscoveryFromUsb21 ==
  (/\ Listed
   /\ Len(attached) = 1
   /\ Len(listing.attempts) = 1
   /\ attempt_calls # <<>>
   /\ ~fails(attached[1], "open"))
    => ((\E k \in 1..Len(attempt_calls) : attempt_calls[k].req = "read_control")
          <=> at_least_usb_2_1(attached[1]))

\* The operations that hand an endpoint address to the backend.
EndpointOperations == {"transfer_in", "transfer_out", "clear_halt"}

\* C40: the endpoint address handed to the backend is 0x80 | endpoint_number
\* for transfer_in and clear_halt(In, _), and 0x00 | endpoint_number for
\* transfer_out and clear_halt(Out, _): its high bit is the requested
\* direction and its low nibble the requested endpoint number.
C40_EndpointAddress ==
  (last.op \in EndpointOperations /\ last.calls # <<>>)
    => /\ Len(last.calls) = 1
       /\ last.calls[1].a = bitor(IF last.dir = "In" THEN 128 ELSE 0, last.n)
       /\ (last.calls[1].a \div 128) % 2 = (IF last.dir = "In" THEN 1 ELSE 0)
       /\ last.calls[1].a % 16 = last.n

\* transfer_in(2) and clear_halt(In, 2) reach the backend with address 0x82,
\* transfer_out(4) and clear_halt(Out, 4) with address 0x04.
C40_Witness ==
  /\ last.op \in EndpointOperations
  /\ last.result = "Ok"
  /\ last.calls # <<>>
  /\ \/ last.dir = "In" /\ last.n = 2 /\ last.calls[1].a = 130
     \/ last.dir = "Out" /\ last.n = 4 /\ last.calls[1].a = 4

====
